---------------------------- MODULE Spec2Model ----------------------------
(***************************************************************************)
(* ChainWarZ front end: wallet session, chain negotiation and strike       *)
(* submission, as implemented by the React components of the repository.   *)
(*                                                                         *)
(* Five components are modelled; `variant` says which one is mounted:      *)
(*   "app"  src/src/App.jsx, first component  (lines 69-640)               *)
(*   "app2" src/src/App.jsx, second component (lines 709-1259)             *)
(*   "p0"   src/unnamed/part_000                                           *)
(*   "p1"   src/unnamed/part_001, first component                          *)
(*   "p3"   src/unnamed/part_003                                           *)
(*                                                                         *)
(* Every `await` of a handler is a step boundary: `pc` names the provider  *)
(* request the running handler is suspended on.  Values a handler reads    *)
(* from its render closure (account, provider) are copied into `from` and  *)
(* `p` when the handler is invoked.  The wallet is the environment: it     *)
(* answers each request by resolving or rejecting, and changes its chain   *)
(* and accounts on its own.                                                *)
(***************************************************************************)
EXTENDS Integers, Sequences, FiniteSets, TLC

NULL == "null"

\* ------------------------------------------------------------------ bounds
MaxListeners == 2
\* longest amount string and largest `decimals` handed to parseUnits
MaxLen == 3
MaxDecimals == 2

\* ------------------------------------------------------- program constants
UNRECOGNIZED_CHAIN == 4902
POLL_ATTEMPTS == 10
DECIMALS == 18

\* ------------------------------------------------------------ value sets
Variants == {"app", "app2", "p0", "p1", "p3"}
AppVariants == {"app", "app2"}
Providers == {"fc", "browser"}
Accounts == {"0xA1", "0xA2"}
Hashes == {"0xh1"}
ChainKeys == {"base", "hyperevm"}
WALLET_CAP == "wallet.getEthereumProvider"

\* Errors a provider can reject a request with: the user declining, the
\* EIP-3085 "unrecognized chain" code, and a wallet that reports the same
\* condition only in its message.
ProviderErrors ==
  { [code |-> 4001, message |-> "User rejected the request."],
    [code |-> 4902, message |-> "Unrecognized chain ID."],
    [code |-> -32603, message |-> "Chain not added to wallet."] }

\* A rejection of any request other than the chain switch: the handlers
\* read nothing but its message.
Rejection == [code |-> 4001, message |-> "User rejected the request."]

\* String.prototype.includes over the lower-cased messages above.
MsgIncludes(msg, word) ==
  \/ word = "unrecognized" /\ msg = "Unrecognized chain ID."
  \/ word = "not added" /\ msg = "Chain not added to wallet."

\* ----------------------------------------------- exact integer arithmetic
\* A BigInt is a sequence of decimal digits, most significant first,
\* without leading zeros (<<0>> is zero); a negative BigInt carries its sign
\* on its leading digit (<<-1, 5>> is -15).  The empty sequence stands for
\* no value at all: the SyntaxError that BigInt() throws.
DecChars == <<"0", "1", "2", "3", "4", "5", "6", "7", "8", "9">>
HexChars == <<"0", "1", "2", "3", "4", "5", "6", "7", "8", "9",
              "a", "b", "c", "d", "e", "f">>

SyntaxError == <<>>

CharVal(c) == (CHOOSE d \in 1..16 : HexChars[d] = c) - 1

\* c is a digit of the given radix
IsDigit(c, radix) == \E d \in 1..radix : HexChars[d] = c

RECURSIVE StripZeros(_)
StripZeros(ds) ==
  IF Len(ds) > 1 /\ Head(ds) = 0 THEN StripZeros(Tail(ds)) ELSE ds

Zeros(n) == [j \in 1..n |-> 0]

IsNeg(a) == a[1] < 0
Mag(a) == IF IsNeg(a) THEN [a EXCEPT ![1] = -a[1]] ELSE a
Neg(m) == IF m = <<0>> THEN m ELSE [m EXCEPT ![1] = -m[1]]

\* a + b on the digit sequences of two non-negative values
BigAdd(a, b) ==
  LET n == IF Len(a) > Len(b) THEN Len(a) ELSE Len(b)
      pa == Zeros(n - Len(a)) \o a
      pb == Zeros(n - Len(b)) \o b
      carry[j \in 1..(n + 1)] ==
        IF j = n + 1 THEN 0 ELSE (pa[j] + pb[j] + carry[j + 1]) \div 10
      digit(j) == (pa[j] + pb[j] + carry[j + 1]) % 10
  IN StripZeros(<<carry[1]>> \o [j \in 1..n |-> digit(j)])

\* a < b on the digit sequences of two non-negative values
BigLess(a, b) ==
  \/ Len(a) < Len(b)
  \/ /\ Len(a) = Len(b)
     /\ \E j \in 1..Len(a) :
          /\ a[j] < b[j]
          /\ \A k \in 1..(j - 1) : a[k] = b[k]

\* a - b on the digit sequences of two non-negative values, a >= b
BigSub(a, b) ==
  LET n == Len(a)
      pb == Zeros(n - Len(b)) \o b
      borrow[j \in 1..(n + 1)] ==
        IF j = n + 1 THEN 0
        ELSE IF a[j] - pb[j] - borrow[j + 1] < 0 THEN 1 ELSE 0
      digit(j) == (a[j] - pb[j] - borrow[j + 1] + 10) % 10
  IN StripZeros([j \in 1..n |-> digit(j)])

\* a * k on the digit sequence of a non-negative value, k in 0..16
BigMulSmall(a, k) ==
  LET n == Len(a)
      carry[j \in 1..(n + 1)] ==
        IF j = n + 1 THEN 0 ELSE (a[j] * k + carry[j + 1]) \div 10
      digit(j) == (a[j] * k + carry[j + 1]) % 10
  IN StripZeros(<<carry[1] \div 10, carry[1] % 10>> \o [j \in 1..n |-> digit(j)])

\* a + b on BigInts; a SyntaxError thrown while an operand was evaluated
\* leaves no sum
BigPlus(a, b) ==
  IF a = SyntaxError \/ b = SyntaxError THEN SyntaxError
  ELSE IF IsNeg(a) = IsNeg(b)
    THEN (IF IsNeg(a) THEN Neg(BigAdd(Mag(a), Mag(b))) ELSE BigAdd(a, b))
  ELSE LET ma == Mag(a)
           mb == Mag(b)
       IN IF ma = mb THEN <<0>>
          ELSE IF BigLess(mb, ma)
            THEN (IF IsNeg(a) THEN Neg(BigSub(ma, mb)) ELSE BigSub(ma, mb))
          ELSE (IF IsNeg(b) THEN Neg(BigSub(mb, ma)) ELSE BigSub(mb, ma))

\* a * 10^n
BigMulPow10(a, n) ==
  IF a = SyntaxError THEN SyntaxError
  ELSE IF a = <<0>> THEN <<0>> ELSE a \o Zeros(n)

\* long division by 16: quotient and remainder
RECURSIVE LongDiv16(_, _, _)
LongDiv16(ds, r, q) ==
  IF ds = <<>> THEN [q |-> StripZeros(q), r |-> r]
  ELSE LET cur == r * 10 + Head(ds)
       IN LongDiv16(Tail(ds), cur % 16, Append(q, cur \div 16))

\* BigInt.prototype.toString(16) of a positive value
RECURSIVE HexOf(_)
HexOf(n) ==
  IF n = <<0>> THEN ""
  ELSE LET d == LongDiv16(n, 0, <<>>) IN HexOf(d.q) \o HexChars[d.r + 1]

ToString16(n) ==
  IF n = <<0>> THEN "0"
  ELSE IF IsNeg(n) THEN "-" \o HexOf(Mag(n))
  ELSE HexOf(n)

toHexWei(bi) == "0x" \o ToString16(bi)

\* String.prototype.trim over the one white-space character of the model
RECURSIVE TrimStart(_)
TrimStart(str) ==
  IF str # <<>> /\ Head(str) = " " THEN TrimStart(Tail(str)) ELSE str

RECURSIVE TrimEnd(_)
TrimEnd(str) ==
  IF str # <<>> /\ str[Len(str)] = " "
    THEN TrimEnd(SubSeq(str, 1, Len(str) - 1))
  ELSE str

Trim(str) == TrimEnd(TrimStart(str))

\* The value of a non-empty string of digits of the given radix.
RECURSIVE FromDigits(_, _, _)
FromDigits(str, radix, acc) ==
  IF str = <<>> THEN acc
  ELSE FromDigits(Tail(str), radix,
                  BigAdd(BigMulSmall(acc, radix),
                         LET v == CharVal(Head(str))
                         IN IF v < 10 THEN <<v>> ELSE <<1, v - 10>>))

\* StringToBigInt of a string without surrounding white space: decimal
\* digits with an optional sign, or 0x / 0o / 0b and digits of that radix
\* without a sign; anything else is a SyntaxError.
StringToBigInt(s) ==
  LET digitsOf(str, radix) ==
        IF str # <<>> /\ \A j \in 1..Len(str) : IsDigit(str[j], radix)
          THEN (IF radix = 10
                  THEN StripZeros([j \in 1..Len(str) |-> CharVal(str[j])])
                ELSE FromDigits(str, radix, <<0>>))
        ELSE SyntaxError
  IN IF s = <<>> THEN <<0>>
     ELSE IF s[1] = "-" THEN
       LET m == digitsOf(Tail(s), 10)
       IN IF m = SyntaxError THEN SyntaxError ELSE Neg(m)
     ELSE IF s[1] = "+" THEN digitsOf(Tail(s), 10)
     ELSE IF Len(s) >= 2 /\ s[1] = "0" /\ s[2] \in {"x", "X"}
       THEN digitsOf(SubSeq(s, 3, Len(s)), 16)
     ELSE IF Len(s) >= 2 /\ s[1] = "0" /\ s[2] \in {"o", "O"}
       THEN digitsOf(SubSeq(s, 3, Len(s)), 8)
     ELSE IF Len(s) >= 2 /\ s[1] = "0" /\ s[2] \in {"b", "B"}
       THEN digitsOf(SubSeq(s, 3, Len(s)), 2)
     ELSE digitsOf(s, 10)

\* BigInt(str): the value the string denotes ('' and white space are 0n),
\* or SyntaxError
BigInt(str) == StringToBigInt(Trim(str))

\* String.prototype.split('.'): the pieces between the dots
RECURSIVE SplitDot(_, _, _)
SplitDot(str, cur, acc) ==
  IF str = <<>> THEN Append(acc, cur)
  ELSE IF Head(str) = "." THEN SplitDot(Tail(str), <<>>, Append(acc, cur))
  ELSE SplitDot(Tail(str), Append(cur, Head(str)), acc)

\* Variation of slice: the string is returned uncut.
slice_uncut(str, n) == str

\* String.prototype.slice(0, n)
slice(str, n) == SubSeq(str, 1, IF n < Len(str) THEN n ELSE Len(str))

\* Variation of parseUnits: the fraction is padded on the left
\* (padStart) instead of on the right.
parseUnits_padStart(amountStr, decimals) ==
  LET parts == SplitDot(Trim(amountStr), <<>>, <<>>)
      wholeRaw == parts[1]
      fracRaw == IF Len(parts) >= 2 THEN parts[2] ELSE <<>>
      whole == IF wholeRaw = <<>> THEN <<"0">> ELSE wholeRaw
      padded == [j \in 1..decimals |-> "0"] \o fracRaw
      frac == slice(padded, decimals)
  IN BigPlus(BigMulPow10(BigInt(whole), decimals),
             BigInt(IF frac = <<>> THEN <<"0">> ELSE frac))

\* parseUnits(amountStr, decimals); amountStr is a sequence of characters.
\* The result is the BigInt returned, or SyntaxError when BigInt() throws.
parseUnits(amountStr, decimals) ==
  LET parts == SplitDot(Trim(amountStr), <<>>, <<>>)
      wholeRaw == parts[1]
      fracRaw == IF Len(parts) >= 2 THEN parts[2] ELSE <<>>
      whole == IF wholeRaw = <<>> THEN <<"0">> ELSE wholeRaw
      padded == fracRaw \o [j \in 1..decimals |-> "0"]
      frac == slice(padded, decimals)
  IN BigPlus(BigMulPow10(BigInt(whole), decimals),
             BigInt(IF frac = <<>> THEN <<"0">> ELSE frac))

\* ------------------------------------------------------ chain descriptors
BASE_CONTRACT == "0xB2B23e69b9d811D3D43AD473f90A171D18b19aab"

\* Variation of CHAINS: the Base strike costs 1337000000000 wei.
CHAINS_baseAmount1337 ==
  [ base |-> [ chainIdHex |-> "0x2105", name |-> "Base",
               contractAddress |-> BASE_CONTRACT,
               valueWei |-> <<1,3,3,7,0,0,0,0,0,0,0,0,0>> ],
    hyperevm |-> [ chainIdHex |-> "0x3e7", name |-> "HyperEVM",
               contractAddress |-> "0x044A0B2D6eF67F5B82e51ec7229D84C0e83C8f02",
               valueWei |-> <<1,3,3,7,0,0,0,0,0,0,0,0,0,0,0>> ] ]

\* src/src/App.jsx, first component
CHAINS ==
  [ base |-> [ chainIdHex |-> "0x2105", name |-> "Base",
               contractAddress |-> BASE_CONTRACT,
               valueWei |-> <<1,3,3,7,4,2,0,6,9,0,0,0,0>> ],
    hyperevm |-> [ chainIdHex |-> "0x3e7", name |-> "HyperEVM",
               contractAddress |-> "0x044A0B2D6eF67F5B82e51ec7229D84C0e83C8f02",
               valueWei |-> <<1,3,3,7,0,0,0,0,0,0,0,0,0,0,0>> ] ]

\* '0x' + valueWei.toString(16) of each chain, as sendStrike computes it
CHAINS_valueHex ==
  [ base |-> "0x" \o ToString16(CHAINS.base.valueWei),
    hyperevm |-> "0x" \o ToString16(CHAINS.hyperevm.valueWei) ]

\* src/src/App.jsx, second component
CHAINS2 ==
  [ base |-> [ chainIdHex |-> "0x2105", name |-> "Base",
               contractAddress |-> BASE_CONTRACT,
               strikeCandidatesWei |-> << <<1,3,3,7,0,0,0,0,0,0,0,0,0>>,
                                          <<1,3,3,7,4,2,0,6,9,0,0,0,0>> >> ],
    hyperevm |-> [ chainIdHex |-> "0x3e7", name |-> "HyperEVM",
               contractAddress |-> "0x044A0B2D6eF67F5B82e51ec7229D84C0e83C8f02",
               strikeCandidatesWei |-> << <<1,3,3,7,0,0,0,0,0,0,0,0,0,0,0>> >> ] ]

\* '0x' + candidate.toString(16) of each candidate, as pickStrikeValueHex
\* computes it
CHAINS2_candidatesHex ==
  [ base |-> << "0x" \o ToString16(CHAINS2.base.strikeCandidatesWei[1]),
               "0x" \o ToString16(CHAINS2.base.strikeCandidatesWei[2]) >>,
    hyperevm |-> << "0x" \o ToString16(CHAINS2.hyperevm.strikeCandidatesWei[1]) >> ]

\* src/unnamed/part_000
STRIKE_WEI == <<1,3,3,7,4,2,0,6,9,0,0,0,0>>

P0_CHAINS ==
  [ base |-> [ idHex |-> "0x2105", name |-> "Base", caip2 |-> "eip155:8453",
               contractAddress |-> BASE_CONTRACT ],
    hyperevm |-> [ idHex |-> "0x3e7", name |-> "HyperEVM", caip2 |-> "eip155:999",
               contractAddress |-> "0xDddED87c1f1487495E8aa47c9B43FEf4c5153054" ] ]

P0_strikeWei == [ base |-> STRIKE_WEI, hyperevm |-> STRIKE_WEI ]

\* toHexWei(chain.strikeWei) of each chain, as sendTransaction computes it
P0_valueHex ==
  [ base |-> toHexWei(P0_strikeWei.base),
    hyperevm |-> toHexWei(P0_strikeWei.hyperevm) ]

\* src/unnamed/part_001
P1_CHAINS ==
  [ base |-> [ idHex |-> "0x2105", name |-> "Base", caip2 |-> "eip155:8453",
               contractAddress |-> BASE_CONTRACT,
               strikeAmountDecimal |-> <<"0",".","0","0","0","0","0","1","3","3","7">> ],
    hyperevm |-> [ idHex |-> "0x3e7", name |-> "HyperEVM", caip2 |-> "eip155:999",
               contractAddress |-> "0xDddED87c1f1487495E8aa47c9B43FEf4c5153054",
               strikeAmountDecimal |-> <<"0",".","0","0","0","1","3","3","7">> ] ]

P1_strikeWei ==
  [ base |-> parseUnits(P1_CHAINS.base.strikeAmountDecimal, DECIMALS),
    hyperevm |-> parseUnits(P1_CHAINS.hyperevm.strikeAmountDecimal, DECIMALS) ]

\* toHexWei(strikeWei) of each chain, as sendTransaction computes it
P1_valueHex ==
  [ base |-> toHexWei(P1_strikeWei.base),
    hyperevm |-> toHexWei(P1_strikeWei.hyperevm) ]

\* src/unnamed/part_003
P3_CHAINS ==
  [ base |-> [ id |-> "0x2105", name |-> "Base",
               contractAddress |-> BASE_CONTRACT,
               weiAmount |-> <<1,3,3,7,0,0,0,0,0,0,0,0,0>> ],
    hyperevm |-> [ id |-> "0xd0d4", name |-> "HyperEVM",
               contractAddress |-> "0x044A0B2D6eF67F5B82e51ec7229D84C0e83C8f02",
               weiAmount |-> <<1,3,3,7,0,0,0,0,0,0,0,0,0,0,0>> ] ]

\* '0x' + weiAmount.toString(16) of each chain, as sendTransaction computes it
P3_valueHex ==
  [ base |-> "0x" \o ToString16(P3_CHAINS.base.weiAmount),
    hyperevm |-> "0x" \o ToString16(P3_CHAINS.hyperevm.weiAmount) ]

\* The chain id a component asks the wallet for, and the recipient it uses.
TargetId(v, key) ==
  CASE v = "app" -> CHAINS[key].chainIdHex
    [] v = "app2" -> CHAINS2[key].chainIdHex
    [] v = "p0" -> P0_CHAINS[key].idHex
    [] v = "p1" -> P1_CHAINS[key].idHex
    [] v = "p3" -> P3_CHAINS[key].id

ChainName(key) == IF key = "base" THEN "Base" ELSE "HyperEVM"



\* ------------------------------------------------------------------ state
VARIABLES
  variant,          \* the mounted component
  inHost,           \* environment: sdk.isInMiniApp()
  hostCaps,         \* environment: sdk.getCapabilities()
  hostChains,       \* environment: sdk.getChains()
  hasEthereum,      \* environment: window.ethereum is present
  inputStr,         \* parseUnits: its first argument, amountStr
  inputDecimals,    \* parseUnits: its second argument, decimals
  result,           \* parseUnits: how the call ended, and the value returned
  walletChain,      \* environment: the chain each provider's wallet is on
  status, loading,
  fcProvider, browserProvider, connectedVia,   \* App.jsx (walletMode in part_000)
  ethProvider, isMiniApp, chains, supportsHyperEvm,  \* part_000, part_001
  account, currentChainId,
  lastTx,           \* App.jsx: { chainKey, hash }
  txHash,           \* part_000, part_001, part_003
  listeners,        \* per provider, how many handler pairs are registered
                    \* with on(), by the provider their closure re-reads
  pc,               \* request the running handler awaits; "boot", "idle"
  chainKey,         \* argument of the running strike
  p,                \* provider the running handler uses
  from,             \* `account` of the render the handler was created in
  closureVia,       \* `connectedVia` of that render
  via,              \* viaLabel argument of requestAccounts
  i,                \* loop index (confirm loop, strike candidates)
  profile,          \* App.jsx (first component), part_003: profile data is
                    \* held (profileCounts with loaded counts, profile
                    \* non-null); FALSE is the initial, cleared state
  timer,            \* App.jsx (first component): the address the pending
                    \* setTimeout of a successful strike will reload the
                    \* counts of; NULL while no timeout is pending
  before,           \* history: lastTx, txHash, connectedVia and ethProvider
                    \* when the running handler was invoked
  calls,            \* history: requests issued so far by the running handler
  sent,             \* history: eth_sendTransaction params it has submitted
  answer            \* history: the provider's latest answer to the handler

unitVars == <<inputStr, inputDecimals, result>>
envVars == <<variant, inHost, hostCaps, hostChains, hasEthereum, unitVars>>
hostVars == <<fcProvider, browserProvider, isMiniApp, chains, supportsHyperEvm>>
opVars == <<chainKey, p, from, closureVia, via, i, before>>
vars == <<envVars, walletChain, status, loading, hostVars, connectedVia,
          ethProvider, account, currentChainId, lastTx, txHash, listeners,
          profile, timer, pc, opVars, calls, sent, answer>>

NoTx == [chainKey |-> NULL, hash |-> NULL]
NoSnapshot ==
  [lastTx |-> NoTx, txHash |-> "", connectedVia |-> NULL, ethProvider |-> NULL]

\* The recorded strike result and the provider choice as a handler finds them
\* when it is invoked.
Snapshot ==
  [lastTx |-> lastTx, txHash |-> txHash, connectedVia |-> connectedVia,
   ethProvider |-> ethProvider]

Call(method, to) == [method |-> method, to |-> to]

\* An eth_estimateGas request of pickStrikeValueHex, with the value it probes.
Probe(to, valueHex) ==
  [method |-> "eth_estimateGas", to |-> to, value |-> valueHex]

\* Answers of a provider to a request.
Resolved(v) == [ok |-> TRUE, value |-> v, code |-> 0, message |-> ""]
Rejected(err) == [ok |-> FALSE, value |-> NULL, code |-> err.code,
                  message |-> err.message]
NoAnswer == [ok |-> TRUE, value |-> NULL, code |-> 0, message |-> "none"]

\* What sdk.wallet.getEthereumProvider() hands out: the host's provider
\* inside the host, nothing outside it.
sdkEthereumProvider == IF inHost THEN "fc" ELSE NULL
windowEthereum == IF hasEthereum THEN "browser" ELSE NULL

\* The component state after construction (the useState initial values).
InitSession ==
  /\ walletChain = [pr \in Providers |-> TargetId(variant, "base")]
  /\ status = "" /\ loading = FALSE
  /\ fcProvider = NULL /\ browserProvider = NULL /\ connectedVia = NULL
  /\ ethProvider = NULL /\ isMiniApp = FALSE /\ chains = {}
  /\ supportsHyperEvm = FALSE
  /\ account = NULL /\ currentChainId = NULL
  /\ lastTx = NoTx /\ txHash = ""
  /\ profile = FALSE /\ timer = NULL
  /\ listeners = [pr \in Providers |-> [q \in Providers |-> 0]]
  /\ pc = "boot"
  /\ chainKey = NULL /\ p = NULL /\ from = NULL /\ closureVia = NULL
  /\ via = NULL /\ i = 0 /\ before = NoSnapshot
  /\ calls = <<>> /\ sent = <<>> /\ answer = NoAnswer

\* Outcomes of a parseUnits call.
NoResult == [state |-> "none", value |-> SyntaxError]
Returned(v) == [state |-> "returned", value |-> v]
Thrown == [state |-> "thrown", value |-> SyntaxError]

\* part_003 talks to window.ethereum only; its host detection feeds the
\* profile identity alone.
Init ==
  /\ variant \in Variants
  /\ inHost \in (IF variant = "p3" THEN {FALSE} ELSE BOOLEAN)
  /\ hostCaps \in (IF inHost THEN {{}, {WALLET_CAP}} ELSE {{}})
  /\ hostChains \in (IF inHost /\ variant \in {"p0", "p1"}
                       THEN {{}, {"eip155:999"}} ELSE {{}})
  /\ hasEthereum \in BOOLEAN
  /\ inputStr = <<>> /\ inputDecimals = DECIMALS /\ result = NoResult
  /\ InitSession

\* A handler returns: its locals die with it.
Return ==
  /\ pc' = "idle"
  /\ chainKey' = NULL /\ p' = NULL /\ from' = NULL /\ closureVia' = NULL
  /\ via' = NULL /\ i' = 0 /\ before' = NoSnapshot
  /\ calls' = <<>> /\ sent' = <<>>

\* ------------------------------------------------------------ environment
ProviderExists(pr) == IF pr = "fc" THEN inHost ELSE hasEthereum

\* ids the wallet of the mounted component can be on
ReachableChains == {TargetId(variant, "base"), TargetId(variant, "hyperevm")}

\* eth_chainId: the provider's current chain, or a rejection
ChainIdAnswers(pr) == {Resolved(walletChain[pr]), Rejected(Rejection)}
\* wallet_switchEthereumChain: done, or any provider error
SwitchAnswers == {Resolved(NULL)} \cup {Rejected(err) : err \in ProviderErrors}
\* wallet_addEthereumChain, eth_call, eth_estimateGas
PlainAnswers == {Resolved(NULL), Rejected(Rejection)}
\* eth_requestAccounts: accounts[0] (null for an empty list), or a rejection
AccountsAnswers ==
  {Resolved(a) : a \in Accounts \cup {NULL}} \cup {Rejected(Rejection)}
\* fetch of the backend: a response, or a failure
FetchAnswers ==
  {Resolved(NULL), Rejected([code |-> 0, message |-> "Failed to fetch"])}
\* eth_sendTransaction: the transaction hash, or a rejection
SendAnswers == {Resolved(h) : h \in Hashes} \cup {Rejected(Rejection)}

\* number of handler pairs registered on provider pr
ListenerCount(pr) == listeners[pr]["fc"] + listeners[pr]["browser"]

\* number of handler pairs registered on all providers
ListenerTotal == ListenerCount("fc") + ListenerCount("browser")

getActiveProvider(cv, fc, br) ==
  IF cv = "farcaster" /\ fc # NULL THEN fc
  ELSE IF cv = "browser" /\ br # NULL THEN br
  ELSE IF fc # NULL THEN fc
  ELSE br

\* The chainChanged handlers registered on pr run after its wallet moved to
\* chain c (wc is the wallets' state after the move).  App.jsx re-reads the
\* id through getActiveProvider of the render that registered the handler;
\* part_000 and part_001 store the id the event carries; part_003 re-reads
\* it from window.ethereum.
onChainChanged(pr, c, wc) ==
  IF ListenerCount(pr) = 0 THEN currentChainId' = currentChainId
  ELSE IF variant \in AppVariants THEN
    \E q \in Providers :
      /\ listeners[pr][q] > 0
      /\ \/ currentChainId' = wc[q]
         \/ currentChainId' = currentChainId   \* eth_chainId rejected
  ELSE IF variant \in {"p0", "p1"} THEN currentChainId' = c
  ELSE \/ currentChainId' = wc["browser"]
       \/ currentChainId' = currentChainId

\* The wallet of provider pr moves to another chain (the user switches, or
\* a switch request is carried out) and emits chainChanged.
WalletChainChanged ==
  /\ pc # "boot"
  /\ \E pr \in Providers, c \in ReachableChains :
       /\ ProviderExists(pr)
       /\ c # walletChain[pr]
       /\ walletChain' = [walletChain EXCEPT ![pr] = c]
       /\ onChainChanged(pr, c, walletChain')
  /\ UNCHANGED <<envVars, status, loading, hostVars, connectedVia, ethProvider,
                 account, lastTx, txHash, listeners, pc, opVars, calls, sent,
                 answer>>
  /\ UNCHANGED <<profile, timer>>

\* The profile loaders.  loadCountsForAddress of the first component of
\* App.jsx stores the counts it fetched, or zero counts when the fetch
\* fails; loadProfile of part_003 stores a profile either way (its catch
\* builds one from the address).  The profile data of the second component
\* of App.jsx and the farcasterProfile of part_000 and part_001 are display
\* data that no handler reads; they are left out.
loadProfile ==
  IF variant = "app" THEN profile' \in BOOLEAN
  ELSE IF variant = "p3" THEN profile' = TRUE
  ELSE UNCHANGED profile

\* The accountsChanged handlers after setAccount(a): the profile of a
\* non-null a is reloaded; on an empty list part_003 also calls
\* setProfile(null), the others leave the profile state alone.
onAccountsChanged(a) ==
  IF a # NULL THEN loadProfile
  ELSE IF variant = "p3" THEN profile' = FALSE
  ELSE UNCHANGED profile

\* Variation of WalletAccountsChanged: the handler also releases `loading`.
WalletAccountsChanged_releasesLoading ==
  /\ pc # "boot"
  /\ \E pr \in Providers, a \in Accounts \cup {NULL} :
       /\ ListenerCount(pr) > 0
       /\ a # account
       /\ account' = a
       /\ onAccountsChanged(a)
  /\ loading' = FALSE
  /\ UNCHANGED <<envVars, walletChain, status, hostVars, connectedVia,
                 ethProvider, currentChainId, lastTx, txHash, listeners, pc,
                 opVars, calls, sent, answer, timer>>

\* The wallet of provider pr emits accountsChanged with the list accs
\* (empty, or one address); every component stores accs[0] or null.
WalletAccountsChanged ==
  /\ pc # "boot"
  /\ \E pr \in Providers, a \in Accounts \cup {NULL} :
       /\ ListenerCount(pr) > 0
       /\ a # account
       /\ account' = a
       /\ onAccountsChanged(a)
  /\ UNCHANGED <<envVars, walletChain, status, loading, hostVars, connectedVia,
                 ethProvider, currentChainId, lastTx, txHash, listeners, pc,
                 opVars, calls, sent, answer, timer>>

\* ------------------------------------------- src/src/App.jsx (both components)
\* Variation of App_init: the handlers are registered on window.ethereum
\* by the init effect, before any connect.
App_init_attachListeners ==
  /\ pc = "boot" /\ variant \in AppVariants
  /\ browserProvider' = windowEthereum
  /\ fcProvider' = IF inHost /\ WALLET_CAP \in hostCaps
                     THEN sdkEthereumProvider ELSE NULL
  /\ listeners' = [listeners EXCEPT !["browser"]["browser"] =
                                        IF hasEthereum THEN 1 ELSE 0]
  /\ pc' = "idle"
  /\ UNCHANGED <<envVars, walletChain, status, loading, isMiniApp, chains,
                 supportsHyperEvm, connectedVia, ethProvider, account,
                 currentChainId, lastTx, txHash, opVars, calls,
                 sent, answer>>
  /\ UNCHANGED <<profile, timer>>

\* The init effect: the providers the environment offers are stored.
App_init ==
  /\ pc = "boot" /\ variant \in AppVariants
  /\ browserProvider' = windowEthereum
  /\ fcProvider' = IF inHost /\ WALLET_CAP \in hostCaps
                     THEN sdkEthereumProvider ELSE NULL
  /\ pc' = "idle"
  /\ UNCHANGED <<envVars, walletChain, status, loading, isMiniApp, chains,
                 supportsHyperEvm, connectedVia, ethProvider, account,
                 currentChainId, lastTx, txHash, listeners, opVars, calls,
                 sent, answer>>
  /\ UNCHANGED <<profile, timer>>

\* requestAccounts(provider, viaLabel), up to its first await
App_requestAccounts ==
  /\ pc = "idle" /\ variant \in AppVariants
  /\ \E label \in {"farcaster", "browser"} :
       LET provider == IF label = "farcaster" THEN fcProvider ELSE browserProvider
       IN  IF provider = NULL
           THEN /\ status' = "No wallet provider found."
                /\ UNCHANGED <<loading, pc, opVars, calls>>
           ELSE /\ ListenerTotal < MaxListeners
                /\ loading' = TRUE
                /\ status' = IF label = "farcaster"
                               THEN "Connecting Farcaster wallet..."
                               ELSE "Connecting browser wallet..."
                /\ calls' = <<Call("eth_requestAccounts", provider)>>
                /\ pc' = "c_accounts"
                /\ p' = provider /\ via' = label /\ closureVia' = connectedVia
                /\ before' = Snapshot
                /\ UNCHANGED <<chainKey, from, i>>
  /\ answer' = NoAnswer
  /\ UNCHANGED <<envVars, walletChain, hostVars, connectedVia, ethProvider,
                 account, currentChainId, lastTx, txHash, listeners, sent>>
  /\ UNCHANGED <<profile, timer>>

\* Variation of App_requestAccounts_accounts: the return on an empty list
\* skips the finally.
App_requestAccounts_accounts_noFinally ==
  /\ pc = "c_accounts" /\ variant \in AppVariants
  /\ \E ans \in AccountsAnswers :
       /\ answer' = ans
       /\ IF ~ans.ok
          THEN /\ status' = "Connection cancelled."
               /\ loading' = FALSE /\ Return
               /\ UNCHANGED <<account, connectedVia>>
          ELSE IF ans.value = NULL
          THEN /\ status' = "No account returned."
               /\ Return
               /\ UNCHANGED <<loading, account, connectedVia>>
          ELSE /\ account' = ans.value
               /\ connectedVia' = via
               /\ status' = "Connected."
               /\ calls' = Append(calls, Call("eth_chainId",
                     getActiveProvider(closureVia, fcProvider, browserProvider)))
               /\ pc' = "c_chain"
               /\ UNCHANGED <<loading, opVars, sent>>
  /\ UNCHANGED <<envVars, walletChain, hostVars, ethProvider, currentChainId,
                 lastTx, txHash, listeners>>
  /\ UNCHANGED <<profile, timer>>

\* eth_requestAccounts answered; on an address, refreshChainId() is started
App_requestAccounts_accounts ==
  /\ pc = "c_accounts" /\ variant \in AppVariants
  /\ \E ans \in AccountsAnswers :
       /\ answer' = ans
       /\ IF ~ans.ok
          THEN /\ status' = "Connection cancelled."
               /\ loading' = FALSE /\ Return
               /\ UNCHANGED <<account, connectedVia>>
          ELSE IF ans.value = NULL
          THEN /\ status' = "No account returned."
               /\ loading' = FALSE /\ Return
               /\ UNCHANGED <<account, connectedVia>>
          ELSE /\ account' = ans.value
               /\ connectedVia' = via
               /\ status' = "Connected."
               /\ calls' = Append(calls, Call("eth_chainId",
                     getActiveProvider(closureVia, fcProvider, browserProvider)))
               /\ pc' = "c_chain"
               /\ UNCHANGED <<loading, opVars, sent>>
  /\ UNCHANGED <<envVars, walletChain, hostVars, ethProvider, currentChainId,
                 lastTx, txHash, listeners>>
  /\ UNCHANGED <<profile, timer>>

\* refreshChainId() answered; the counts are loaded and the handlers
\* are registered on `provider`
App_requestAccounts_chain ==
  /\ pc = "c_chain" /\ variant \in AppVariants
  /\ LET q == getActiveProvider(closureVia, fcProvider, browserProvider)
     IN  /\ \E ans \in ChainIdAnswers(q) :
              /\ answer' = ans
              /\ currentChainId' = IF ans.ok THEN ans.value ELSE currentChainId
         /\ listeners' = [listeners EXCEPT ![p][q] = @ + 1]
  /\ loadProfile
  /\ loading' = FALSE /\ Return
  /\ UNCHANGED <<envVars, walletChain, status, hostVars, connectedVia,
                 ethProvider, account, lastTx, txHash, timer>>

\* Variation of App_strikeFailed: the rejection escapes sendStrike, which
\* ends without a message of its own.
App_strikeFailed_uncaught ==
  /\ UNCHANGED status
  /\ loading' = FALSE /\ Return

\* catch + finally of sendStrike
App_strikeFailed ==
  /\ status' = "Transaction cancelled or failed."
  /\ loading' = FALSE /\ Return

\* Variation of App_sendStrike: the account is not looked at.
App_sendStrike_unguarded ==
  /\ pc = "idle" /\ variant \in AppVariants
  /\ \E key \in ChainKeys :
       LET prov == getActiveProvider(connectedVia, fcProvider, browserProvider)
       IN  IF prov = NULL
           THEN /\ status' = "No wallet provider available."
                /\ UNCHANGED <<loading, pc, opVars, calls>>
           ELSE /\ loading' = TRUE
                /\ status' = "Preparing strike on " \o ChainName(key) \o "..."
                /\ chainKey' = key /\ p' = prov /\ from' = account
                /\ calls' = <<Call("wallet_switchEthereumChain", prov)>>
                /\ pc' = "switch"
                /\ before' = Snapshot
                /\ UNCHANGED <<closureVia, via, i>>
  /\ answer' = NoAnswer
  /\ UNCHANGED <<envVars, walletChain, hostVars, connectedVia, ethProvider,
                 account, currentChainId, lastTx, txHash, listeners, sent>>
  /\ UNCHANGED <<profile, timer>>

\* sendStrike(chainKey) up to the first await of switchOrAddChain
App_sendStrike ==
  /\ pc = "idle" /\ variant \in AppVariants
  /\ \E key \in ChainKeys :
       LET prov == getActiveProvider(connectedVia, fcProvider, browserProvider)
       IN  IF account = NULL
           THEN /\ status' = "Connect a wallet first."
                /\ UNCHANGED <<loading, pc, opVars, calls>>
           ELSE IF prov = NULL
           THEN /\ status' = "No wallet provider available."
                /\ UNCHANGED <<loading, pc, opVars, calls>>
           ELSE /\ loading' = TRUE
                /\ status' = "Preparing strike on " \o ChainName(key) \o "..."
                /\ chainKey' = key /\ p' = prov /\ from' = account
                /\ calls' = <<Call("wallet_switchEthereumChain", prov)>>
                /\ pc' = "switch"
                /\ before' = Snapshot
                /\ UNCHANGED <<closureVia, via, i>>
  /\ answer' = NoAnswer
  /\ UNCHANGED <<envVars, walletChain, hostVars, connectedVia, ethProvider,
                 account, currentChainId, lastTx, txHash, listeners, sent>>
  /\ UNCHANGED <<profile, timer>>

\* switchOrAddChain: wallet_switchEthereumChain answered
App_switchOrAddChain ==
  /\ pc = "switch" /\ variant \in AppVariants
  /\ \E ans \in SwitchAnswers :
       /\ answer' = ans
       /\ IF ans.ok
          THEN /\ calls' = Append(calls, Call("eth_chainId", p))
               /\ pc' = "refresh"
               /\ UNCHANGED <<status, loading, opVars, sent>>
          ELSE IF ans.code = UNRECOGNIZED_CHAIN
          THEN /\ calls' = Append(calls, Call("wallet_addEthereumChain", p))
               /\ pc' = "add"
               /\ UNCHANGED <<status, loading, opVars, sent>>
          ELSE App_strikeFailed
  /\ UNCHANGED <<envVars, walletChain, hostVars, connectedVia, ethProvider,
                 account, currentChainId, lastTx, txHash, listeners>>
  /\ UNCHANGED <<profile, timer>>

\* Variation of App_switchOrAddChain_add: a failed strike clears the
\* recorded result.
App_switchOrAddChain_add_clearsResult ==
  /\ pc = "add" /\ variant \in AppVariants
  /\ \E ans \in PlainAnswers :
       /\ answer' = ans
       /\ IF ans.ok
          THEN /\ calls' = Append(calls, Call("eth_chainId", p))
               /\ pc' = "refresh"
               /\ UNCHANGED <<status, loading, opVars, sent, lastTx>>
          ELSE App_strikeFailed /\ lastTx' = NoTx
  /\ UNCHANGED <<envVars, walletChain, hostVars, connectedVia, ethProvider,
                 account, currentChainId, txHash, listeners>>
  /\ UNCHANGED <<profile, timer>>

\* switchOrAddChain: wallet_addEthereumChain answered
App_switchOrAddChain_add ==
  /\ pc = "add" /\ variant \in AppVariants
  /\ \E ans \in PlainAnswers :
       /\ answer' = ans
       /\ IF ans.ok
          THEN /\ calls' = Append(calls, Call("eth_chainId", p))
               /\ pc' = "refresh"
               /\ UNCHANGED <<status, loading, opVars, sent>>
          ELSE App_strikeFailed
  /\ UNCHANGED <<envVars, walletChain, hostVars, connectedVia, ethProvider,
                 account, currentChainId, lastTx, txHash, listeners>>
  /\ UNCHANGED <<profile, timer>>

\* refreshChainId() at the end of switchOrAddChain: a rejection is swallowed
App_refreshChainId ==
  \E ans \in ChainIdAnswers(p) :
    /\ answer' = ans
    /\ currentChainId' = IF ans.ok THEN ans.value ELSE currentChainId

TxParams(sender, to, value) ==
  [from |-> sender, to |-> to, value |-> value, data |-> "0x"]

\* Variation of App_sendStrike_submit: the sender is the account of the
\* moment the transaction is requested.
App_sendStrike_submit_liveAccount ==
  /\ pc = "refresh" /\ variant = "app"
  /\ App_refreshChainId
  /\ status' = "Confirm the transaction in your wallet..."
  /\ sent' = Append(sent, TxParams(account, CHAINS[chainKey].contractAddress,
                                   CHAINS_valueHex[chainKey]))
  /\ calls' = Append(calls, Call("eth_sendTransaction", p))
  /\ pc' = "send"
  /\ UNCHANGED <<envVars, walletChain, loading, hostVars, connectedVia,
                 ethProvider, account, lastTx, txHash, listeners, opVars>>
  /\ UNCHANGED <<profile, timer>>

\* first component: the refresh is answered and the transaction is requested
App_sendStrike_submit ==
  /\ pc = "refresh" /\ variant = "app"
  /\ App_refreshChainId
  /\ status' = "Confirm the transaction in your wallet..."
  /\ sent' = Append(sent, TxParams(from, CHAINS[chainKey].contractAddress,
                                   CHAINS_valueHex[chainKey]))
  /\ calls' = Append(calls, Call("eth_sendTransaction", p))
  /\ pc' = "send"
  /\ UNCHANGED <<envVars, walletChain, loading, hostVars, connectedVia,
                 ethProvider, account, lastTx, txHash, listeners, opVars>>
  /\ UNCHANGED <<profile, timer>>

\* second component: the refresh is answered and pickStrikeValueHex probes
\* the first candidate
App2_sendStrike_check ==
  /\ pc = "refresh" /\ variant = "app2"
  /\ App_refreshChainId
  /\ status' = "Checking strike amount..."
  /\ calls' = Append(calls, Probe(p, CHAINS2_candidatesHex[chainKey][1]))
  /\ i' = 1
  /\ pc' = "estimate"
  /\ UNCHANGED <<envVars, walletChain, loading, hostVars, connectedVia,
                 ethProvider, account, lastTx, txHash, listeners, chainKey, p,
                 from, closureVia, via, sent, before>>
  /\ UNCHANGED <<profile, timer>>

\* Variation of App2_pickStrikeValueHex: when every probe is rejected the
\* candidate probed last is used.
App2_pickStrikeValueHex_lastCandidate ==
  /\ pc = "estimate" /\ variant = "app2"
  /\ LET cands == CHAINS2_candidatesHex[chainKey]
         submit(valueHex) ==
           /\ status' = "Confirm the transaction in your wallet..."
           /\ sent' = Append(sent, TxParams(from,
                               CHAINS2[chainKey].contractAddress, valueHex))
           /\ calls' = Append(calls, Call("eth_sendTransaction", p))
           /\ pc' = "send"
           /\ i' = 0
     IN  \E ans \in PlainAnswers :
           /\ answer' = ans
           /\ IF ans.ok THEN submit(cands[i])
              ELSE IF i < Len(cands)
              THEN /\ calls' = Append(calls, Probe(p, cands[i + 1]))
                   /\ i' = i + 1
                   /\ UNCHANGED <<status, sent, pc>>
              ELSE submit(cands[i])
  /\ UNCHANGED <<envVars, walletChain, loading, hostVars, connectedVia,
                 ethProvider, account, currentChainId, lastTx, txHash,
                 listeners, chainKey, p, from, closureVia, via, before>>
  /\ UNCHANGED <<profile, timer>>

\* pickStrikeValueHex: eth_estimateGas for candidate i answered
App2_pickStrikeValueHex ==
  /\ pc = "estimate" /\ variant = "app2"
  /\ LET cands == CHAINS2_candidatesHex[chainKey]
         submit(valueHex) ==
           /\ status' = "Confirm the transaction in your wallet..."
           /\ sent' = Append(sent, TxParams(from,
                               CHAINS2[chainKey].contractAddress, valueHex))
           /\ calls' = Append(calls, Call("eth_sendTransaction", p))
           /\ pc' = "send"
           /\ i' = 0
     IN  \E ans \in PlainAnswers :
           /\ answer' = ans
           /\ IF ans.ok THEN submit(cands[i])
              ELSE IF i < Len(cands)
              THEN /\ calls' = Append(calls, Probe(p, cands[i + 1]))
                   /\ i' = i + 1
                   /\ UNCHANGED <<status, sent, pc>>
              ELSE submit(cands[1])
  /\ UNCHANGED <<envVars, walletChain, loading, hostVars, connectedVia,
                 ethProvider, account, currentChainId, lastTx, txHash,
                 listeners, chainKey, p, from, closureVia, via, before>>
  /\ UNCHANGED <<profile, timer>>

\* Variation of App_sendStrike_sent: a rejected transaction is requested
\* again.
App_sendStrike_sent_retry ==
  /\ pc = "send" /\ variant \in AppVariants
  /\ \E ans \in SendAnswers :
       /\ answer' = ans
       /\ IF ans.ok
          THEN /\ lastTx' = [chainKey |-> chainKey, hash |-> ans.value]
               /\ status' = "Strike sent!"
               /\ timer' = IF variant = "app" THEN from ELSE NULL
               /\ loading' = FALSE /\ Return
          ELSE /\ sent' = Append(sent, sent[Len(sent)])
               /\ calls' = Append(calls, Call("eth_sendTransaction", p))
               /\ UNCHANGED <<status, loading, pc, opVars, lastTx, timer>>
  /\ UNCHANGED <<envVars, walletChain, hostVars, connectedVia, ethProvider,
                 account, currentChainId, txHash, listeners>>
  /\ UNCHANGED profile

\* eth_sendTransaction answered
App_sendStrike_sent ==
  /\ pc = "send" /\ variant \in AppVariants
  /\ \E ans \in SendAnswers :
       /\ answer' = ans
       /\ IF ans.ok
          THEN /\ lastTx' = [chainKey |-> chainKey, hash |-> ans.value]
               /\ status' = "Strike sent!"
               /\ timer' = IF variant = "app" THEN from ELSE NULL
               /\ loading' = FALSE /\ Return
          ELSE App_strikeFailed /\ UNCHANGED <<lastTx, timer>>
  /\ UNCHANGED <<envVars, walletChain, hostVars, connectedVia, ethProvider,
                 account, currentChainId, txHash, listeners>>
  /\ UNCHANGED profile

\* ------------------------------------------------------ src/unnamed/part_000
supportsHyperEvmInHost ==
  IF ~isMiniApp THEN TRUE
  ELSE "eip155:999" \in chains \/ "eip155:53460" \in chains

\* checkConnection(provider) as run by the init effect: eth_accounts, then
\* refreshChainId and the profile load when an account is already
\* authorised; a rejection of either request is swallowed (in part_000 and
\* part_001 a rejected refreshChainId skips the profile load, in part_003
\* updateCurrentChain has its own catch).
checkConnection(provider) ==
  \/ UNCHANGED <<account, currentChainId, profile>>  \* rejected, or no account
  \/ \E addr \in Accounts :
       /\ account' = addr
       /\ \E ans \in ChainIdAnswers(provider) :
            /\ currentChainId' = IF ans.ok THEN ans.value ELSE currentChainId
            /\ IF ans.ok \/ variant = "p3" THEN loadProfile
               ELSE UNCHANGED profile

P0_init ==
  /\ pc = "boot" /\ variant = "p0"
  /\ isMiniApp' = inHost
  /\ chains' = hostChains
  /\ LET host == IF inHost THEN sdkEthereumProvider ELSE NULL
         provider == IF host # NULL THEN host ELSE windowEthereum
     IN  /\ connectedVia' = IF provider = NULL
                              THEN (IF inHost THEN "farcaster" ELSE NULL)
                              ELSE IF provider = host THEN "farcaster"
                              ELSE "browser"
         /\ ethProvider' = provider
         /\ IF provider # NULL
            THEN /\ listeners' = [listeners EXCEPT ![provider][provider] = @ + 1]
                 /\ checkConnection(provider)
            ELSE UNCHANGED <<listeners, account, currentChainId, profile>>
  /\ pc' = "idle"
  /\ UNCHANGED <<envVars, walletChain, status, loading, fcProvider,
                 browserProvider, supportsHyperEvm, lastTx, txHash, opVars,
                 calls, sent, answer>>
  /\ UNCHANGED timer

\* catch + finally of the connect functions
P0_connectFailed(message) ==
  /\ status' = "Connect failed: " \o message
  /\ loading' = FALSE /\ Return

\* connectFarcasterWallet up to the eth_requestAccounts request
P0_connectFarcasterWallet ==
  /\ pc = "idle" /\ variant = "p0"
  /\ LET provider == sdkEthereumProvider
     IN  /\ ethProvider' = provider
         /\ connectedVia' = "farcaster"
         /\ IF provider = NULL
            THEN /\ P0_connectFailed("No EIP-1193 provider available")
                 /\ UNCHANGED listeners
            ELSE /\ ListenerTotal < MaxListeners
                 /\ listeners' = [listeners EXCEPT ![provider][provider] = @ + 1]
                 /\ loading' = TRUE
                 /\ status' = "Connecting Farcaster wallet..."
                 /\ calls' = <<Call("eth_requestAccounts", provider)>>
                 /\ pc' = "c_accounts"
                 /\ p' = provider /\ via' = "farcaster"
                 /\ before' = Snapshot
                 /\ UNCHANGED <<chainKey, from, closureVia, i, sent>>
  /\ answer' = NoAnswer
  /\ UNCHANGED <<envVars, walletChain, hostVars, account, currentChainId,
                 lastTx, txHash>>
  /\ UNCHANGED <<profile, timer>>

\* connectBrowserWallet up to the eth_requestAccounts request
P0_connectBrowserWallet ==
  /\ pc = "idle" /\ variant = "p0"
  /\ LET provider == windowEthereum
     IN  IF provider = NULL
         THEN /\ P0_connectFailed("No browser wallet found.")
              /\ UNCHANGED <<ethProvider, connectedVia, listeners>>
         ELSE /\ ListenerTotal < MaxListeners
              /\ ethProvider' = provider
              /\ connectedVia' = "browser"
              /\ listeners' = [listeners EXCEPT ![provider][provider] = @ + 1]
              /\ loading' = TRUE
              /\ status' = "Connecting browser wallet..."
              /\ calls' = <<Call("eth_requestAccounts", provider)>>
              /\ pc' = "c_accounts"
              /\ p' = provider /\ via' = "browser"
              /\ before' = Snapshot
              /\ UNCHANGED <<chainKey, from, closureVia, i, sent>>
  /\ answer' = NoAnswer
  /\ UNCHANGED <<envVars, walletChain, hostVars, account, currentChainId,
                 lastTx, txHash>>
  /\ UNCHANGED <<profile, timer>>

\* eth_requestAccounts answered: accounts?.[0] || null is stored
P0_connect_accounts ==
  /\ pc = "c_accounts" /\ variant = "p0"
  /\ \E ans \in AccountsAnswers :
       /\ answer' = ans
       /\ IF ans.ok
          THEN /\ account' = ans.value
               /\ from' = ans.value
               /\ calls' = Append(calls, Call("eth_chainId", p))
               /\ pc' = "c_chain"
               /\ UNCHANGED <<status, loading, chainKey, p, closureVia, via, i,
                              sent, before>>
          ELSE P0_connectFailed(ans.message) /\ UNCHANGED account
  /\ UNCHANGED <<envVars, walletChain, hostVars, connectedVia, ethProvider,
                 currentChainId, lastTx, txHash, listeners>>
  /\ UNCHANGED <<profile, timer>>

\* refreshChainId(provider) answered
P0_connect_chain ==
  /\ pc = "c_chain" /\ variant = "p0"
  /\ \E ans \in ChainIdAnswers(p) :
       /\ answer' = ans
       /\ IF ans.ok
          THEN /\ currentChainId' = ans.value
               /\ status' = IF from = NULL THEN "Wallet connection failed."
                            ELSE IF via = "farcaster"
                                 THEN "Farcaster wallet connected."
                                 ELSE "Browser wallet connected."
               /\ loading' = FALSE /\ Return
          ELSE P0_connectFailed(ans.message) /\ UNCHANGED currentChainId
  /\ UNCHANGED <<envVars, walletChain, hostVars, connectedVia, ethProvider,
                 account, lastTx, txHash, listeners>>
  /\ UNCHANGED <<profile, timer>>

\* catch + finally of sendTransaction
P0_strikeFailed(message) ==
  /\ status' = "Transaction failed: " \o message
  /\ loading' = FALSE /\ Return

\* sendTransaction(chainKey) up to the switch request of switchChain
P0_sendTransaction ==
  /\ pc = "idle" /\ variant = "p0"
  /\ \E key \in ChainKeys :
       IF account = NULL
       THEN /\ status' = "Connect wallet first."
            /\ UNCHANGED <<loading, txHash, pc, opVars, calls>>
       ELSE IF ethProvider = NULL
       THEN /\ status' = "No wallet provider."
            /\ UNCHANGED <<loading, txHash, pc, opVars, calls>>
       ELSE IF key = "hyperevm" /\ isMiniApp /\ ~supportsHyperEvmInHost
       THEN /\ status' = "HyperEVM is not supported by this host wallet."
            /\ UNCHANGED <<loading, txHash, pc, opVars, calls>>
       ELSE /\ loading' = TRUE
            /\ txHash' = ""
            /\ status' = "Switching to " \o P0_CHAINS[key].name \o "..."
            /\ chainKey' = key /\ p' = ethProvider /\ from' = account
            /\ calls' = <<Call("wallet_switchEthereumChain", ethProvider)>>
            /\ pc' = "switch"
            /\ before' = Snapshot
            /\ UNCHANGED <<closureVia, via, i>>
  /\ answer' = NoAnswer
  /\ UNCHANGED <<envVars, walletChain, hostVars, connectedVia, ethProvider,
                 account, currentChainId, lastTx, listeners, sent>>
  /\ UNCHANGED <<profile, timer>>

\* switchChain: wallet_switchEthereumChain answered
P0_switchChain ==
  /\ pc = "switch" /\ variant = "p0"
  /\ \E ans \in SwitchAnswers :
       /\ answer' = ans
       /\ IF ans.ok
          THEN /\ calls' = Append(calls, Call("eth_chainId", p))
               /\ i' = 0
               /\ pc' = "poll"
               /\ UNCHANGED <<status, loading, chainKey, p, from, closureVia,
                              via, sent, before>>
          ELSE P0_strikeFailed(ans.message)
  /\ UNCHANGED <<envVars, walletChain, hostVars, connectedVia, ethProvider,
                 account, currentChainId, lastTx, txHash, listeners>>
  /\ UNCHANGED <<profile, timer>>

\* switchChain, confirm loop: refreshChainId of attempt i answered
P0_switchChain_confirm ==
  /\ pc = "poll" /\ variant = "p0"
  /\ \E ans \in ChainIdAnswers(p) :
       /\ answer' = ans
       /\ IF ~ans.ok
          THEN P0_strikeFailed(ans.message) /\ UNCHANGED currentChainId
          ELSE /\ currentChainId' = ans.value
               /\ IF ans.value = P0_CHAINS[chainKey].idHex
                  THEN /\ calls' = Append(calls, Call("eth_chainId", p))
                       /\ pc' = "verify"
                  ELSE /\ pc' = "sleep"
                       /\ UNCHANGED calls
               /\ UNCHANGED <<status, loading, opVars, sent>>
  /\ UNCHANGED <<envVars, walletChain, hostVars, connectedVia, ethProvider,
                 account, lastTx, txHash, listeners>>
  /\ UNCHANGED <<profile, timer>>

\* Variation of P0_switchChain_sleep: the loop ends without throwing.
P0_switchChain_sleep_fallthrough ==
  /\ pc = "sleep" /\ variant = "p0"
  /\ calls' = Append(calls, Call("eth_chainId", p))
  /\ IF i + 1 < POLL_ATTEMPTS
     THEN i' = i + 1 /\ pc' = "poll"
     ELSE i' = i /\ pc' = "verify"
  /\ UNCHANGED <<status, loading, chainKey, p, from, closureVia, via, sent,
                 before>>
  /\ UNCHANGED <<envVars, walletChain, hostVars, connectedVia, ethProvider,
                 account, currentChainId, lastTx, txHash, listeners, answer>>
  /\ UNCHANGED <<profile, timer>>

\* switchChain, confirm loop: sleep(250) is over
P0_switchChain_sleep ==
  /\ pc = "sleep" /\ variant = "p0"
  /\ IF i + 1 < POLL_ATTEMPTS
     THEN /\ i' = i + 1
          /\ calls' = Append(calls, Call("eth_chainId", p))
          /\ pc' = "poll"
          /\ UNCHANGED <<status, loading, chainKey, p, from, closureVia, via,
                         sent, before>>
     ELSE P0_strikeFailed("Chain switch did not complete.")
  /\ UNCHANGED <<envVars, walletChain, hostVars, connectedVia, ethProvider,
                 account, currentChainId, lastTx, txHash, listeners, answer>>
  /\ UNCHANGED <<profile, timer>>

\* Variation of P0_sendTransaction_verify: the id read is not compared
\* with the target.
P0_sendTransaction_verify_unchecked ==
  /\ pc = "verify" /\ variant = "p0"
  /\ \E ans \in ChainIdAnswers(p) :
       /\ answer' = ans
       /\ IF ~ans.ok
          THEN P0_strikeFailed(ans.message) /\ UNCHANGED currentChainId
          ELSE /\ currentChainId' = ans.value
               /\ status' = "Confirm strike..."
               /\ sent' = Append(sent,
                    TxParams(from, P0_CHAINS[chainKey].contractAddress,
                             P0_valueHex[chainKey]))
               /\ calls' = Append(calls, Call("eth_sendTransaction", p))
               /\ pc' = "send"
               /\ UNCHANGED <<loading, opVars>>
  /\ UNCHANGED <<envVars, walletChain, hostVars, connectedVia, ethProvider,
                 account, lastTx, txHash, listeners>>
  /\ UNCHANGED <<profile, timer>>

\* sendTransaction: the refreshChainId after switchChain answered
P0_sendTransaction_verify ==
  /\ pc = "verify" /\ variant = "p0"
  /\ \E ans \in ChainIdAnswers(p) :
       /\ answer' = ans
       /\ IF ~ans.ok
          THEN P0_strikeFailed(ans.message) /\ UNCHANGED currentChainId
          ELSE /\ currentChainId' = ans.value
               /\ IF ans.value # P0_CHAINS[chainKey].idHex
                  THEN P0_strikeFailed("Wrong chain. Expected "
                         \o P0_CHAINS[chainKey].name \o " ("
                         \o P0_CHAINS[chainKey].idHex \o "), got " \o ans.value)
                  ELSE /\ status' = "Confirm strike..."
                       /\ sent' = Append(sent,
                            TxParams(from, P0_CHAINS[chainKey].contractAddress,
                                     P0_valueHex[chainKey]))
                       /\ calls' = Append(calls, Call("eth_sendTransaction", p))
                       /\ pc' = "send"
                       /\ UNCHANGED <<loading, opVars>>
  /\ UNCHANGED <<envVars, walletChain, hostVars, connectedVia, ethProvider,
                 account, lastTx, txHash, listeners>>
  /\ UNCHANGED <<profile, timer>>

\* sendTransaction: eth_sendTransaction answered
P0_sendTransaction_sent ==
  /\ pc = "send" /\ variant = "p0"
  /\ \E ans \in SendAnswers :
       /\ answer' = ans
       /\ IF ans.ok
          THEN /\ txHash' = ans.value
               /\ status' = "Transaction sent on " \o P0_CHAINS[chainKey].name \o "!"
               /\ loading' = FALSE /\ Return
          ELSE P0_strikeFailed(ans.message) /\ UNCHANGED txHash
  /\ UNCHANGED <<envVars, walletChain, hostVars, connectedVia, ethProvider,
                 account, currentChainId, lastTx, listeners>>
  /\ UNCHANGED <<profile, timer>>

\* ----------------------------------- src/unnamed/part_001 (first component)
getProvider(mini, supportsWallet) ==
  IF mini /\ supportsWallet THEN sdkEthereumProvider ELSE windowEthereum

P1_init ==
  /\ pc = "boot" /\ variant = "p1"
  /\ isMiniApp' = inHost
  /\ chains' = hostChains
  /\ LET supportsWallet == WALLET_CAP \in hostCaps
         provider == getProvider(inHost, supportsWallet)
     IN  /\ supportsHyperEvm' = (supportsWallet /\ P1_CHAINS.hyperevm.caip2 \in hostChains)
         /\ ethProvider' = provider
         /\ IF provider # NULL
            THEN /\ listeners' = [listeners EXCEPT ![provider][provider] = @ + 1]
                 /\ checkConnection(provider)
            ELSE UNCHANGED <<listeners, account, currentChainId, profile>>
  /\ pc' = "idle"
  /\ UNCHANGED <<envVars, walletChain, status, loading, fcProvider,
                 browserProvider, connectedVia, lastTx, txHash, opVars,
                 calls, sent, answer>>
  /\ UNCHANGED timer

\* catch + finally of connectWallet
P1_connectFailed(message) ==
  /\ status' = "Connect failed: " \o message
  /\ loading' = FALSE /\ Return

\* connectWallet up to the eth_requestAccounts request
P1_connectWallet ==
  /\ pc = "idle" /\ variant = "p1"
  /\ IF ethProvider = NULL
     THEN /\ status' = "No wallet provider detected."
          /\ UNCHANGED <<loading, pc, opVars, calls>>
     ELSE /\ loading' = TRUE
          /\ status' = IF isMiniApp THEN "Connecting Farcaster wallet..."
                       ELSE "Connecting wallet..."
          /\ calls' = <<Call("eth_requestAccounts", ethProvider)>>
          /\ pc' = "c_accounts"
          /\ p' = ethProvider
          /\ before' = Snapshot
          /\ UNCHANGED <<chainKey, from, closureVia, via, i>>
  /\ answer' = NoAnswer
  /\ UNCHANGED <<envVars, walletChain, hostVars, connectedVia, ethProvider,
                 account, currentChainId, lastTx, txHash, listeners, sent>>
  /\ UNCHANGED <<profile, timer>>

\* eth_requestAccounts answered: accounts?.[0] || null is stored
P1_connectWallet_accounts ==
  /\ pc = "c_accounts" /\ variant = "p1"
  /\ \E ans \in AccountsAnswers :
       /\ answer' = ans
       /\ IF ans.ok
          THEN /\ account' = ans.value
               /\ from' = ans.value
               /\ calls' = Append(calls, Call("eth_chainId", p))
               /\ pc' = "c_chain"
               /\ UNCHANGED <<status, loading, chainKey, p, closureVia, via, i,
                              sent, before>>
          ELSE P1_connectFailed(ans.message) /\ UNCHANGED account
  /\ UNCHANGED <<envVars, walletChain, hostVars, connectedVia, ethProvider,
                 currentChainId, lastTx, txHash, listeners>>
  /\ UNCHANGED <<profile, timer>>

\* refreshChainId(ethProvider) answered
P1_connectWallet_chain ==
  /\ pc = "c_chain" /\ variant = "p1"
  /\ \E ans \in ChainIdAnswers(p) :
       /\ answer' = ans
       /\ IF ans.ok
          THEN /\ currentChainId' = ans.value
               /\ status' = IF from = NULL THEN "Wallet connection failed."
                            ELSE "Wallet connected."
               /\ loading' = FALSE /\ Return
          ELSE P1_connectFailed(ans.message) /\ UNCHANGED currentChainId
  /\ UNCHANGED <<envVars, walletChain, hostVars, connectedVia, ethProvider,
                 account, lastTx, txHash, listeners>>
  /\ UNCHANGED <<profile, timer>>

\* catch + finally of sendTransaction
P1_strikeFailed(message) ==
  /\ status' = "Transaction failed: " \o message
  /\ loading' = FALSE /\ Return

\* Variation of P1_sendTransaction: without the runtime gate.
P1_sendTransaction_ungated ==
  /\ pc = "idle" /\ variant = "p1"
  /\ \E key \in ChainKeys :
       IF account = NULL
       THEN /\ status' = "Connect wallet first."
            /\ UNCHANGED <<loading, txHash, pc, opVars, calls>>
       ELSE IF ethProvider = NULL
       THEN /\ status' = "No wallet provider."
            /\ UNCHANGED <<loading, txHash, pc, opVars, calls>>
       ELSE /\ loading' = TRUE
            /\ txHash' = ""
            /\ status' = "Switching to " \o P1_CHAINS[key].name \o "..."
            /\ chainKey' = key /\ p' = ethProvider /\ from' = account
            /\ calls' = <<Call("wallet_switchEthereumChain", ethProvider)>>
            /\ pc' = "switch"
            /\ before' = Snapshot
            /\ UNCHANGED <<closureVia, via, i>>
  /\ answer' = NoAnswer
  /\ UNCHANGED <<envVars, walletChain, hostVars, connectedVia, ethProvider,
                 account, currentChainId, lastTx, listeners, sent>>
  /\ UNCHANGED <<profile, timer>>

\* sendTransaction(chainKey) up to the switch request of switchChain
P1_sendTransaction ==
  /\ pc = "idle" /\ variant = "p1"
  /\ \E key \in ChainKeys :
       IF account = NULL
       THEN /\ status' = "Connect wallet first."
            /\ UNCHANGED <<loading, txHash, pc, opVars, calls>>
       ELSE IF ethProvider = NULL
       THEN /\ status' = "No wallet provider."
            /\ UNCHANGED <<loading, txHash, pc, opVars, calls>>
       ELSE IF key = "hyperevm" /\ ~supportsHyperEvm
       THEN /\ status' = "HyperEVM is not supported by this host wallet."
            /\ UNCHANGED <<loading, txHash, pc, opVars, calls>>
       ELSE /\ loading' = TRUE
            /\ txHash' = ""
            /\ status' = "Switching to " \o P1_CHAINS[key].name \o "..."
            /\ chainKey' = key /\ p' = ethProvider /\ from' = account
            /\ calls' = <<Call("wallet_switchEthereumChain", ethProvider)>>
            /\ pc' = "switch"
            /\ before' = Snapshot
            /\ UNCHANGED <<closureVia, via, i>>
  /\ answer' = NoAnswer
  /\ UNCHANGED <<envVars, walletChain, hostVars, connectedVia, ethProvider,
                 account, currentChainId, lastTx, listeners, sent>>
  /\ UNCHANGED <<profile, timer>>

\* the confirm loop of switchChain starts
P1_confirmStart ==
  /\ calls' = Append(calls, Call("eth_chainId", p))
  /\ i' = 0
  /\ pc' = "poll"
  /\ UNCHANGED <<status, loading, chainKey, p, from, closureVia, via, sent, before>>

\* Variation of P1_switchChain: inside the host the chain is added like
\* anywhere else.
P1_switchChain_addInHost ==
  /\ pc = "switch" /\ variant = "p1"
  /\ \E ans \in SwitchAnswers :
       /\ answer' = ans
       /\ LET chainNotAdded ==
                \/ ans.code = UNRECOGNIZED_CHAIN
                \/ MsgIncludes(ans.message, "unrecognized")
                \/ MsgIncludes(ans.message, "not added")
          IN  IF ans.ok THEN P1_confirmStart
              ELSE IF chainNotAdded
              THEN /\ calls' = Append(calls, Call("wallet_addEthereumChain", p))
                   /\ pc' = "add"
                   /\ UNCHANGED <<status, loading, opVars, sent>>
              ELSE P1_strikeFailed(ans.message)
  /\ UNCHANGED <<envVars, walletChain, hostVars, connectedVia, ethProvider,
                 account, currentChainId, lastTx, txHash, listeners>>
  /\ UNCHANGED <<profile, timer>>

\* switchChain: the first wallet_switchEthereumChain answered
P1_switchChain ==
  /\ pc = "switch" /\ variant = "p1"
  /\ \E ans \in SwitchAnswers :
       /\ answer' = ans
       /\ LET chainNotAdded ==
                \/ ans.code = UNRECOGNIZED_CHAIN
                \/ MsgIncludes(ans.message, "unrecognized")
                \/ MsgIncludes(ans.message, "not added")
          IN  IF ans.ok THEN P1_confirmStart
              ELSE IF chainNotAdded /\ isMiniApp
              THEN P1_strikeFailed(P1_CHAINS[chainKey].name
                     \o " is not available in this host wallet.")
              ELSE IF chainNotAdded
              THEN /\ calls' = Append(calls, Call("wallet_addEthereumChain", p))
                   /\ pc' = "add"
                   /\ UNCHANGED <<status, loading, opVars, sent>>
              ELSE P1_strikeFailed(ans.message)
  /\ UNCHANGED <<envVars, walletChain, hostVars, connectedVia, ethProvider,
                 account, currentChainId, lastTx, txHash, listeners>>
  /\ UNCHANGED <<profile, timer>>

\* switchChain: wallet_addEthereumChain answered; the switch is retried
P1_switchChain_add ==
  /\ pc = "add" /\ variant = "p1"
  /\ \E ans \in PlainAnswers :
       /\ answer' = ans
       /\ IF ans.ok
          THEN /\ calls' = Append(calls, Call("wallet_switchEthereumChain", p))
               /\ pc' = "switch2"
               /\ UNCHANGED <<status, loading, opVars, sent>>
          ELSE P1_strikeFailed(ans.message)
  /\ UNCHANGED <<envVars, walletChain, hostVars, connectedVia, ethProvider,
                 account, currentChainId, lastTx, txHash, listeners>>
  /\ UNCHANGED <<profile, timer>>

\* switchChain: the retried wallet_switchEthereumChain answered
P1_switchChain_retry ==
  /\ pc = "switch2" /\ variant = "p1"
  /\ \E ans \in SwitchAnswers :
       /\ answer' = ans
       /\ IF ans.ok THEN P1_confirmStart ELSE P1_strikeFailed(ans.message)
  /\ UNCHANGED <<envVars, walletChain, hostVars, connectedVia, ethProvider,
                 account, currentChainId, lastTx, txHash, listeners>>
  /\ UNCHANGED <<profile, timer>>

\* switchChain, confirm loop: refreshChainId of attempt i answered
P1_switchChain_confirm ==
  /\ pc = "poll" /\ variant = "p1"
  /\ \E ans \in ChainIdAnswers(p) :
       /\ answer' = ans
       /\ IF ~ans.ok
          THEN P1_strikeFailed(ans.message) /\ UNCHANGED currentChainId
          ELSE /\ currentChainId' = ans.value
               /\ IF ans.value = P1_CHAINS[chainKey].idHex
                  THEN /\ calls' = Append(calls, Call("eth_chainId", p))
                       /\ pc' = "verify"
                  ELSE /\ pc' = "sleep"
                       /\ UNCHANGED calls
               /\ UNCHANGED <<status, loading, opVars, sent>>
  /\ UNCHANGED <<envVars, walletChain, hostVars, connectedVia, ethProvider,
                 account, lastTx, txHash, listeners>>
  /\ UNCHANGED <<profile, timer>>

\* Variation of P1_switchChain_sleep: the loop has no attempt limit.
P1_switchChain_sleep_unbounded ==
  /\ pc = "sleep" /\ variant = "p1"
  /\ pc' = "poll"
  /\ UNCHANGED <<status, loading, chainKey, p, from, closureVia, via, i, sent,
                 before, calls>>
  /\ UNCHANGED <<envVars, walletChain, hostVars, connectedVia, ethProvider,
                 account, currentChainId, lastTx, txHash, listeners, answer>>
  /\ UNCHANGED <<profile, timer>>

\* switchChain, confirm loop: sleep(250) is over
P1_switchChain_sleep ==
  /\ pc = "sleep" /\ variant = "p1"
  /\ IF i + 1 < POLL_ATTEMPTS
     THEN /\ i' = i + 1
          /\ calls' = Append(calls, Call("eth_chainId", p))
          /\ pc' = "poll"
          /\ UNCHANGED <<status, loading, chainKey, p, from, closureVia, via,
                         sent, before>>
     ELSE P1_strikeFailed("Chain switch did not complete.")
  /\ UNCHANGED <<envVars, walletChain, hostVars, connectedVia, ethProvider,
                 account, currentChainId, lastTx, txHash, listeners, answer>>
  /\ UNCHANGED <<profile, timer>>

\* sendTransaction: the refreshChainId after switchChain answered; on the
\* target chain simulateTx sends eth_call
P1_sendTransaction_verify ==
  /\ pc = "verify" /\ variant = "p1"
  /\ \E ans \in ChainIdAnswers(p) :
       /\ answer' = ans
       /\ IF ~ans.ok
          THEN P1_strikeFailed(ans.message) /\ UNCHANGED currentChainId
          ELSE /\ currentChainId' = ans.value
               /\ IF ans.value # P1_CHAINS[chainKey].idHex
                  THEN P1_strikeFailed("Wrong chain. Expected "
                         \o P1_CHAINS[chainKey].name \o " ("
                         \o P1_CHAINS[chainKey].idHex \o "), got " \o ans.value)
                  ELSE /\ status' = "Simulating strike on "
                                      \o P1_CHAINS[chainKey].name \o "..."
                       /\ calls' = Append(calls, Call("eth_call", p))
                       /\ pc' = "simulate"
                       /\ UNCHANGED <<loading, opVars, sent>>
  /\ UNCHANGED <<envVars, walletChain, hostVars, connectedVia, ethProvider,
                 account, lastTx, txHash, listeners>>
  /\ UNCHANGED <<profile, timer>>

\* sendTransaction: simulateTx answered
P1_sendTransaction_simulated ==
  /\ pc = "simulate" /\ variant = "p1"
  /\ \E ans \in PlainAnswers :
       /\ answer' = ans
       /\ IF ans.ok
          THEN /\ status' = "Confirm strike..."
               /\ sent' = Append(sent,
                    [from |-> from, to |-> P1_CHAINS[chainKey].contractAddress,
                     value |-> P1_valueHex[chainKey]])
               /\ calls' = Append(calls, Call("eth_sendTransaction", p))
               /\ pc' = "send"
               /\ UNCHANGED <<loading, opVars>>
          ELSE P1_strikeFailed("Simulation failed: " \o ans.message)
  /\ UNCHANGED <<envVars, walletChain, hostVars, connectedVia, ethProvider,
                 account, currentChainId, lastTx, txHash, listeners>>
  /\ UNCHANGED <<profile, timer>>

\* sendTransaction: eth_sendTransaction answered
P1_sendTransaction_sent ==
  /\ pc = "send" /\ variant = "p1"
  /\ \E ans \in SendAnswers :
       /\ answer' = ans
       /\ IF ans.ok
          THEN /\ txHash' = ans.value
               /\ status' = "Transaction sent on " \o P1_CHAINS[chainKey].name \o "!"
               /\ loading' = FALSE /\ Return
          ELSE P1_strikeFailed(ans.message) /\ UNCHANGED txHash
  /\ UNCHANGED <<envVars, walletChain, hostVars, connectedVia, ethProvider,
                 account, currentChainId, lastTx, listeners>>
  /\ UNCHANGED <<profile, timer>>

\* ------------------------------------------------------ src/unnamed/part_003
\* checkConnection() of the init effect: updateCurrentChain swallows a
\* rejection, like the shared checkConnection above
P3_init ==
  /\ pc = "boot" /\ variant = "p3"
  /\ IF windowEthereum # NULL
     THEN checkConnection(windowEthereum)
     ELSE UNCHANGED <<account, currentChainId, profile>>
  /\ pc' = "idle"
  /\ UNCHANGED <<envVars, walletChain, status, loading, hostVars,
                 connectedVia, ethProvider, lastTx, txHash, listeners, opVars,
                 calls, sent, answer>>
  /\ UNCHANGED timer

\* connectWallet up to the eth_requestAccounts request
P3_connectWallet ==
  /\ pc = "idle" /\ variant = "p3"
  /\ IF windowEthereum = NULL
     THEN /\ status' = "No wallet detected."
          /\ UNCHANGED <<loading, pc, opVars, calls>>
     ELSE /\ ListenerTotal < MaxListeners
          /\ loading' = TRUE
          /\ status' = "Connecting wallet..."
          /\ calls' = <<Call("eth_requestAccounts", windowEthereum)>>
          /\ pc' = "c_accounts"
          /\ p' = windowEthereum
          /\ before' = Snapshot
          /\ UNCHANGED <<chainKey, from, closureVia, via, i>>
  /\ answer' = NoAnswer
  /\ UNCHANGED <<envVars, walletChain, hostVars, connectedVia, ethProvider,
                 account, currentChainId, lastTx, txHash, listeners, sent>>
  /\ UNCHANGED <<profile, timer>>

\* eth_requestAccounts answered
P3_connectWallet_accounts ==
  /\ pc = "c_accounts" /\ variant = "p3"
  /\ \E ans \in AccountsAnswers :
       /\ answer' = ans
       /\ IF ans.ok /\ ans.value # NULL
          THEN /\ account' = ans.value
               /\ status' = "Connected."
               /\ calls' = Append(calls, Call("eth_chainId", p))
               /\ pc' = "c_chain"
               /\ UNCHANGED <<loading, opVars, sent>>
          ELSE /\ status' = IF ans.ok THEN "No accounts returned."
                            ELSE "Connect failed: " \o ans.message
               /\ loading' = FALSE /\ Return
               /\ UNCHANGED account
  /\ UNCHANGED <<envVars, walletChain, hostVars, connectedVia, ethProvider,
                 currentChainId, lastTx, txHash, listeners>>
  /\ UNCHANGED <<profile, timer>>

\* updateCurrentChain() answered; the profile is loaded and
\* the handlers are registered
P3_connectWallet_chain ==
  /\ pc = "c_chain" /\ variant = "p3"
  /\ \E ans \in ChainIdAnswers(p) :
       /\ answer' = ans
       /\ currentChainId' = IF ans.ok THEN ans.value ELSE currentChainId
  /\ listeners' = [listeners EXCEPT ![p][p] = @ + 1]
  /\ loadProfile
  /\ loading' = FALSE /\ Return
  /\ UNCHANGED <<envVars, walletChain, status, hostVars, connectedVia,
                 ethProvider, account, lastTx, txHash>>
  /\ UNCHANGED timer

\* catch + finally of sendTransaction
P3_strikeFailed(message) ==
  /\ status' = "Transaction failed: " \o message
  /\ loading' = FALSE /\ Return

\* sendTransaction(chainKey) up to its eth_chainId request
P3_sendTransaction ==
  /\ pc = "idle" /\ variant = "p3"
  /\ \E key \in ChainKeys :
       IF account = NULL
       THEN /\ status' = "Connect your wallet first."
            /\ UNCHANGED <<loading, pc, opVars, calls>>
       ELSE /\ loading' = TRUE
            /\ chainKey' = key /\ p' = windowEthereum /\ from' = account
            /\ calls' = <<Call("eth_chainId", windowEthereum)>>
            /\ pc' = "chainid"
            /\ before' = Snapshot
            /\ UNCHANGED <<status, closureVia, via, i>>
  /\ answer' = NoAnswer
  /\ UNCHANGED <<envVars, walletChain, hostVars, connectedVia, ethProvider,
                 account, currentChainId, lastTx, txHash, listeners, sent>>
  /\ UNCHANGED <<profile, timer>>

\* sendTransaction requests the transaction
P3_submit ==
  /\ status' = "Preparing strike on " \o P3_CHAINS[chainKey].name \o "..."
  /\ sent' = Append(sent, TxParams(from, P3_CHAINS[chainKey].contractAddress,
                                   P3_valueHex[chainKey]))
  /\ calls' = Append(calls, Call("eth_sendTransaction", p))
  /\ pc' = "send"
  /\ UNCHANGED opVars

\* sendTransaction: its eth_chainId answered; switchChain is entered when
\* the wallet is on another chain
P3_sendTransaction_chainId ==
  /\ pc = "chainid" /\ variant = "p3"
  /\ \E ans \in ChainIdAnswers(p) :
       /\ answer' = ans
       /\ IF ~ans.ok
          THEN P3_strikeFailed(ans.message)
          ELSE IF ans.value # P3_CHAINS[chainKey].id
          THEN /\ loading' = TRUE
               /\ status' = "Switching to " \o P3_CHAINS[chainKey].name \o "..."
               /\ calls' = Append(calls, Call("wallet_switchEthereumChain", p))
               /\ pc' = "switch"
               /\ UNCHANGED <<opVars, sent>>
          ELSE P3_submit /\ UNCHANGED loading
  /\ UNCHANGED <<envVars, walletChain, hostVars, connectedVia, ethProvider,
                 account, currentChainId, lastTx, txHash, listeners>>
  /\ UNCHANGED <<profile, timer>>

\* switchChain: wallet_switchEthereumChain answered.  A rejection is caught
\* inside switchChain, whose finally clears `loading`; sendTransaction then
\* goes on to request the transaction.
P3_switchChain ==
  /\ pc = "switch" /\ variant = "p3"
  /\ \E ans \in SwitchAnswers :
       /\ answer' = ans
       /\ IF ans.ok
          THEN /\ calls' = Append(calls, Call("eth_chainId", p))
               /\ pc' = "refresh"
               /\ UNCHANGED <<status, loading, opVars, sent>>
          ELSE /\ loading' = FALSE
               /\ P3_submit
  /\ UNCHANGED <<envVars, walletChain, hostVars, connectedVia, ethProvider,
                 account, currentChainId, lastTx, txHash, listeners>>
  /\ UNCHANGED <<profile, timer>>

\* switchChain: updateCurrentChain() answered, finally clears `loading`
P3_switchChain_update ==
  /\ pc = "refresh" /\ variant = "p3"
  /\ \E ans \in ChainIdAnswers(p) :
       /\ answer' = ans
       /\ currentChainId' = IF ans.ok THEN ans.value ELSE currentChainId
  /\ loading' = FALSE
  /\ P3_submit
  /\ UNCHANGED <<envVars, walletChain, hostVars, connectedVia, ethProvider,
                 account, lastTx, txHash, listeners>>
  /\ UNCHANGED <<profile, timer>>

\* sendTransaction: eth_sendTransaction answered; on a hash the profile and
\* the leaderboard are reloaded before the finally
P3_sendTransaction_sent ==
  /\ pc = "send" /\ variant = "p3"
  /\ \E ans \in SendAnswers :
       /\ answer' = ans
       /\ IF ans.ok
          THEN /\ txHash' = ans.value
               /\ status' = "Strike sent on " \o P3_CHAINS[chainKey].name \o "!"
               /\ pc' = "reload"
               /\ UNCHANGED <<loading, opVars, calls, sent>>
          ELSE P3_strikeFailed(ans.message) /\ UNCHANGED txHash
  /\ UNCHANGED <<envVars, walletChain, hostVars, connectedVia, ethProvider,
                 account, currentChainId, lastTx, listeners>>
  /\ UNCHANGED <<profile, timer>>

\* Variation of P3_sendTransaction_reload: a failing reload reaches the catch
\* of sendTransaction.
P3_sendTransaction_reload_uncaught ==
  /\ pc = "reload" /\ variant = "p3"
  /\ \E ans \in FetchAnswers :
       /\ answer' = ans
       /\ IF ans.ok
          THEN loadProfile /\ UNCHANGED status
          ELSE /\ status' = "Transaction failed: " \o ans.message
               /\ UNCHANGED profile
  /\ loading' = FALSE /\ Return
  /\ UNCHANGED <<envVars, walletChain, hostVars, connectedVia, ethProvider,
                 account, currentChainId, lastTx, txHash, listeners, timer>>

\* sendTransaction: loadProfile(account) and loadLeaderboard() answered (each
\* has its own catch), then the finally
P3_sendTransaction_reload ==
  /\ pc = "reload" /\ variant = "p3"
  /\ \E ans \in FetchAnswers : answer' = ans
  /\ loadProfile
  /\ loading' = FALSE /\ Return
  /\ UNCHANGED <<envVars, walletChain, status, hostVars, connectedVia,
                 ethProvider, account, currentChainId, lastTx, txHash,
                 listeners, timer>>

\* The setTimeout callback of a successful sendStrike of the first component
\* of App.jsx fires: the leaderboards and the counts of the account the
\* strike was invoked with are reloaded (each loader has its own catch).  A
\* later strike's timeout takes the place of one still pending.
App_refreshTimeout ==
  /\ timer # NULL /\ variant = "app"
  /\ loadProfile
  /\ timer' = NULL
  /\ UNCHANGED <<envVars, walletChain, status, loading, hostVars, connectedVia,
                 ethProvider, account, currentChainId, lastTx, txHash,
                 listeners, pc, opVars, calls, sent, answer>>

Next ==
  \/ WalletChainChanged
  \/ WalletAccountsChanged
  \/ App_init
  \/ App_requestAccounts
  \/ App_requestAccounts_accounts
  \/ App_requestAccounts_chain
  \/ App_sendStrike
  \/ App_switchOrAddChain
  \/ App_switchOrAddChain_add
  \/ App_sendStrike_submit
  \/ App2_sendStrike_check
  \/ App2_pickStrikeValueHex
  \/ App_sendStrike_sent
  \/ P0_init
  \/ P0_connectFarcasterWallet
  \/ P0_connectBrowserWallet
  \/ P0_connect_accounts
  \/ P0_connect_chain
  \/ P0_sendTransaction
  \/ P0_switchChain
  \/ P0_switchChain_confirm
  \/ P0_switchChain_sleep
  \/ P0_sendTransaction_verify
  \/ P0_sendTransaction_sent
  \/ P1_init
  \/ P1_connectWallet
  \/ P1_connectWallet_accounts
  \/ P1_connectWallet_chain
  \/ P1_sendTransaction
  \/ P1_switchChain
  \/ P1_switchChain_add
  \/ P1_switchChain_retry
  \/ P1_switchChain_confirm
  \/ P1_switchChain_sleep
  \/ P1_sendTransaction_verify
  \/ P1_sendTransaction_simulated
  \/ P1_sendTransaction_sent
  \/ P3_init
  \/ P3_connectWallet
  \/ P3_connectWallet_accounts
  \/ P3_connectWallet_chain
  \/ P3_sendTransaction
  \/ P3_sendTransaction_chainId
  \/ P3_switchChain
  \/ P3_switchChain_update
  \/ P3_sendTransaction_sent
  \/ P3_sendTransaction_reload
  \/ App_refreshTimeout

Spec == Init /\ [][Next]_vars

\* ------------------------------------------------- fair specification
\* The first component of App.jsx, part_000 and part_001, mounted where
\* there is one wallet (inside the host without window.ethereum, or in a
\* browser with it), under the assumption that every request a handler
\* awaits is eventually resolved or rejected and every sleep() ends.  A
\* handler awaits one thing at a time, so one weak-fairness condition on its
\* continuation steps says so; the user's clicks, the wallet's events and
\* the refresh timeout are not forced.
LiveInit ==
  /\ Init
  /\ variant \in {"app", "p0", "p1"}
  /\ inHost # hasEthereum

LiveNext ==
  \/ WalletChainChanged
  \/ WalletAccountsChanged
  \/ App_init
  \/ App_requestAccounts
  \/ App_requestAccounts_accounts
  \/ App_requestAccounts_chain
  \/ App_sendStrike
  \/ App_switchOrAddChain
  \/ App_switchOrAddChain_add
  \/ App_sendStrike_submit
  \/ App_sendStrike_sent
  \/ App_refreshTimeout
  \/ P0_init
  \/ P0_connectFarcasterWallet
  \/ P0_connectBrowserWallet
  \/ P0_connect_accounts
  \/ P0_connect_chain
  \/ P0_sendTransaction
  \/ P0_switchChain
  \/ P0_switchChain_confirm
  \/ P0_switchChain_sleep
  \/ P0_sendTransaction_verify
  \/ P0_sendTransaction_sent
  \/ P1_init
  \/ P1_connectWallet
  \/ P1_connectWallet_accounts
  \/ P1_connectWallet_chain
  \/ P1_sendTransaction
  \/ P1_switchChain
  \/ P1_switchChain_add
  \/ P1_switchChain_retry
  \/ P1_switchChain_confirm
  \/ P1_switchChain_sleep
  \/ P1_sendTransaction_verify
  \/ P1_sendTransaction_simulated
  \/ P1_sendTransaction_sent

\* the steps a running handler takes when what it awaits is settled
HandlerStep ==
  \/ App_requestAccounts_accounts
  \/ App_requestAccounts_chain
  \/ App_switchOrAddChain
  \/ App_switchOrAddChain_add
  \/ App_sendStrike_submit
  \/ App_sendStrike_sent
  \/ P0_connect_accounts
  \/ P0_connect_chain
  \/ P0_switchChain
  \/ P0_switchChain_confirm
  \/ P0_switchChain_sleep
  \/ P0_sendTransaction_verify
  \/ P0_sendTransaction_sent
  \/ P1_connectWallet_accounts
  \/ P1_connectWallet_chain
  \/ P1_switchChain
  \/ P1_switchChain_add
  \/ P1_switchChain_retry
  \/ P1_switchChain_confirm
  \/ P1_switchChain_sleep
  \/ P1_sendTransaction_verify
  \/ P1_sendTransaction_simulated
  \/ P1_sendTransaction_sent

LiveSpec == LiveInit /\ [][LiveNext]_vars /\ WF_vars(HandlerStep)

\* ------------------------------------------------ the amount conversion
\* parseUnits on its own: the module of part_001 is loaded, the arguments
\* are drawn from short strings over digits, the dot and characters that do
\* not belong in a decimal amount, from the amounts CHAINS configures, and
\* from longer malformed amounts; the call is the only step.
AmountChars == {"0", "1", "9", ".", "-", "x", "e", " "}

AmountStrings == UNION {[1..n -> AmountChars] : n \in 0..MaxLen}

ConfiguredAmounts ==
  {P1_CHAINS.base.strikeAmountDecimal, P1_CHAINS.hyperevm.strikeAmountDecimal}

MalformedAmounts ==
  { <<"1", ".", "2", ".", "3">>, <<"0", "x", "1", "0">>, <<"1", "e", "3">>,
    <<"-", "1">>, <<"1", ".", "-", "5">> }

UnitsInit ==
  /\ variant = "p1"
  /\ inHost = FALSE /\ hostCaps = {} /\ hostChains = {}
  /\ hasEthereum = FALSE
  /\ \/ inputStr \in AmountStrings /\ inputDecimals \in 0..MaxDecimals
     \/ inputStr \in ConfiguredAmounts \cup MalformedAmounts
        /\ inputDecimals = DECIMALS
  /\ result = NoResult
  /\ InitSession

Call_parseUnits ==
  /\ result.state = "none"
  /\ LET v == parseUnits(inputStr, inputDecimals)
     IN result' = IF v = SyntaxError THEN Thrown ELSE Returned(v)
  /\ UNCHANGED <<variant, inHost, hostCaps, hostChains, hasEthereum,
                 inputStr, inputDecimals>>
  /\ UNCHANGED <<walletChain, status, loading, hostVars, connectedVia,
                 ethProvider, account, currentChainId, lastTx, txHash,
                 listeners, profile, timer, pc, opVars, calls, sent, answer>>

UnitsNext == Call_parseUnits

UnitsSpec == UnitsInit /\ [][UnitsNext]_vars

\* ------------------------------------------------------------------ claims
\* C1: sendStrike of the first component of App.jsx requests
\* eth_sendTransaction for chain key K only while the wallet of the active
\* provider is on CHAINS[K].chainIdHex.
C1_SendOnlyOnTargetChain ==
  [][(variant = "app" /\ pc # "send" /\ pc' = "send")
       => walletChain[p] = CHAINS[chainKey].chainIdHex]_vars

\* C2: in part_000 and part_001, when the eth_chainId read that follows a
\* successful switchChain answers an id other than the target, the strike
\* ends with the wrong-chain failure and has requested neither eth_call nor
\* eth_sendTransaction.
C2_MismatchFailsStrike ==
  [][(/\ variant \in {"p0", "p1"}
      /\ pc = "verify" /\ pc' # "verify"
      /\ answer'.ok /\ answer'.value # TargetId(variant, chainKey))
       => /\ status' = "Transaction failed: Wrong chain. Expected "
                         \o ChainName(chainKey) \o " ("
                         \o TargetId(variant, chainKey) \o "), got "
                         \o answer'.value
          /\ pc' = "idle" /\ loading' = FALSE
          /\ sent = <<>> /\ sent' = <<>>
          /\ \A j \in 1..Len(calls) :
               calls[j].method \notin {"eth_call", "eth_sendTransaction"}]_vars

C2_Witness ==
  /\ variant = "p1" /\ pc = "idle" /\ ~loading
  /\ answer = Resolved("0x3e7")
  /\ status = "Transaction failed: Wrong chain. Expected Base (0x2105), got 0x3e7"

\* C3: sendStrike of App.jsx and sendTransaction of part_001, invoked with
\* no account or no provider, only set a not-connected / no-provider
\* status: no request is issued and `loading` stays false.
C3_NotConnectedFailsFast ==
  [][(/\ variant \in {"app", "p1"}
      /\ App_sendStrike \/ P1_sendTransaction
      /\ \/ account = NULL
         \/ variant = "app"
              /\ getActiveProvider(connectedVia, fcProvider, browserProvider) = NULL
         \/ variant = "p1" /\ ethProvider = NULL)
       => /\ status' \in {"Connect a wallet first.",
                          "No wallet provider available.",
                          "Connect wallet first.", "No wallet provider."}
          /\ ~loading /\ ~loading'
          /\ pc' = "idle" /\ calls' = <<>> /\ sent' = <<>>]_vars

C3_Witness ==
  /\ variant = "app" /\ account = NULL /\ pc = "idle"
  /\ status = "Connect a wallet first."
  /\ ~loading /\ calls = <<>>

\* C4: in part_000 and part_001, when none of the 10 eth_chainId polls
\* that follow a successful switch answers the target id, the strike ends
\* with the chain-switch-timeout failure and has requested no
\* eth_sendTransaction.
C4_PollTimeout ==
  [][(/\ variant \in {"p0", "p1"}
      /\ pc = "sleep" /\ i = POLL_ATTEMPTS - 1 /\ pc' # "sleep")
       => /\ status' = "Transaction failed: Chain switch did not complete."
          /\ pc' = "idle" /\ loading' = FALSE
          /\ sent = <<>> /\ sent' = <<>>
          /\ Len(SelectSeq(calls, LAMBDA c : c.method = "eth_chainId"))
               = POLL_ATTEMPTS
          /\ \A j \in 1..Len(calls) :
               calls[j].method # "eth_sendTransaction"]_vars

C4_Witness ==
  /\ variant = "p0" /\ pc = "idle" /\ ~loading
  /\ answer.ok /\ answer.value \in {"0x2105", "0x3e7"}
  /\ status = "Transaction failed: Chain switch did not complete."

\* C5: in part_001 and App.jsx, after a switch rejected with code 4902 and
\* a wallet_addEthereumChain that resolved, the next request is the one
\* retry of wallet_switchEthereumChain, and when that resolves the chain
\* id is verified.
C5_AddThenRetrySwitch ==
  [][/\ (/\ variant \in {"app", "p1"}
         /\ pc = "add" /\ pc' # "add" /\ answer'.ok)
          => /\ pc' = "switch2"
             /\ calls' = <<Call("wallet_switchEthereumChain", p),
                           Call("wallet_addEthereumChain", p),
                           Call("wallet_switchEthereumChain", p)>>
     /\ (/\ variant \in {"app", "p1"}
         /\ pc = "switch2" /\ pc' # "switch2" /\ answer'.ok)
          => pc' = "poll"]_vars

\* C6: in App.jsx, part_001 and part_003, a wallet_switchEthereumChain
\* rejected with an error that is not the unrecognized-chain one (neither
\* code 4902 nor a message saying so) ends the strike with that failure:
\* neither wallet_addEthereumChain nor eth_sendTransaction is requested.
C6_SwitchFailureAborts ==
  [][(/\ variant \in {"app", "p1", "p3"}
      /\ pc = "switch" /\ pc' # "switch"
      /\ ~answer'.ok /\ answer'.code # UNRECOGNIZED_CHAIN
      /\ ~MsgIncludes(answer'.message, "unrecognized")
      /\ ~MsgIncludes(answer'.message, "not added"))
       => /\ pc' = "idle" /\ loading' = FALSE
          /\ status' \in {"Transaction cancelled or failed.",
                          "Transaction failed: " \o answer'.message}
          /\ sent' = <<>>]_vars

\* C7: in part_001 inside the host, a switch rejected with code 4902 ends
\* the strike with the host-does-not-support-this-chain failure, after the
\* one switch request and nothing else.
C7_HostRefusesAdd ==
  [][(/\ variant = "p1" /\ isMiniApp
      /\ pc = "switch" /\ pc' # "switch"
      /\ ~answer'.ok /\ answer'.code = UNRECOGNIZED_CHAIN)
       => /\ status' = "Transaction failed: " \o ChainName(chainKey)
                         \o " is not available in this host wallet."
          /\ status' # "Transaction failed: " \o answer'.message
          /\ pc' = "idle" /\ loading' = FALSE
          /\ calls = <<Call("wallet_switchEthereumChain", p)>>
          /\ sent' = <<>>]_vars

C7_Witness ==
  /\ variant = "p1" /\ isMiniApp /\ pc = "idle" /\ ~loading
  /\ ~answer.ok /\ answer.code = UNRECOGNIZED_CHAIN
  /\ status = "Transaction failed: Base is not available in this host wallet."

\* C8 as stated: a Base strike of part_001 or of the first component of
\* App.jsx requests one eth_sendTransaction, with value "0x1374b68fa00",
\* to the Base contract, from the account the strike was invoked with.
C8_BaseStrikeValue1337 ==
  (variant \in {"app", "p1"} /\ chainKey = "base" /\ sent # <<>>)
    => /\ Len(sent) = 1
       /\ sent[1].value = "0x1374b68fa00"
       /\ sent[1].to = BASE_CONTRACT
       /\ sent[1].from = from /\ from \in Accounts

\* C8 amended: the same, with value "0x1374b68fa00" (1337000000000 wei) in
\* part_001 and value "0x137647c3250" (1337420690000 wei) in the first
\* component of App.jsx.
C8_BaseStrikeValue ==
  (variant \in {"app", "p1"} /\ chainKey = "base" /\ sent # <<>>)
    => /\ Len(sent) = 1
       /\ sent[1].value = IF variant = "p1" THEN "0x1374b68fa00"
                          ELSE "0x137647c3250"
       /\ sent[1].to = BASE_CONTRACT
       /\ sent[1].from = from /\ from \in Accounts

C8_Witness ==
  /\ variant = "app" /\ pc = "send" /\ chainKey = "base"
  /\ account = from /\ walletChain[p] = "0x2105" /\ currentChainId = "0x2105"
  /\ sent = <<TxParams(account, BASE_CONTRACT, "0x137647c3250")>>

\* C9: when a strike of App.jsx or part_000 fails, lastTx and txHash are
\* what they were when the strike was invoked, and the failing step leaves
\* the account and the connection source alone.
C9_FailedStrikeKeepsResult ==
  [][(/\ variant \in {"app", "p0"}
      /\ pc \in {"switch", "add", "refresh", "poll", "sleep", "verify", "send"}
      /\ pc' = "idle"
      /\ ~(pc = "send" /\ answer'.ok))
       => /\ lastTx' = before.lastTx
          /\ txHash' = before.txHash
          /\ account' = account
          /\ connectedVia' = connectedVia]_vars

\* C10: a strike of either component of App.jsx requests eth_sendTransaction
\* at most once, whatever the answers to its requests.
C10_AtMostOneSend ==
  variant \in AppVariants
    => /\ Len(sent) <= 1
       /\ Len(SelectSeq(calls, LAMBDA c : c.method = "eth_sendTransaction"))
            = Len(sent)
       /\ pc = "send" <=> Len(sent) = 1

C10_Witness ==
  /\ variant = "app2" /\ pc = "send" /\ Len(sent) = 1
  /\ Len(SelectSeq(calls, LAMBDA c : c.method = "eth_estimateGas")) = 2
  /\ Len(SelectSeq(calls, LAMBDA c : c.method = "eth_sendTransaction")) = 1


\* The positions of a running strike of App.jsx, part_000, part_001 or part_003.
StrikePcs ==
  {"chainid", "switch", "add", "switch2", "refresh", "poll", "sleep", "verify",
   "simulate", "estimate", "send", "reload"}

\* C11 as stated: from the moment a strike of App.jsx or part_003 sets
\* `loading` until that strike returns, `loading` stays true, so the Strike
\* buttons stay disabled and no second strike can start.
C11_LoadingHeldDuringStrike ==
  (variant \in {"app", "app2", "p3"} /\ pc \in StrikePcs) => loading

\* C13: an accountsChanged or chainChanged event that arrives while a strike
\* of App.jsx or part_000 is in flight changes only the account and the
\* observed chain id: `loading`, the recorded strike result and the status
\* message are untouched, and the strike keeps its position, its captured
\* values and its requests, so it goes on to its own outcome.
C13_EventsLeaveStrikeAlone ==
  [][(/\ variant \in {"app", "app2", "p0"}
      /\ pc \in StrikePcs
      /\ (account' # account \/ walletChain' # walletChain))
       => /\ UNCHANGED <<loading, lastTx, txHash, status>>
          /\ UNCHANGED <<pc, opVars, calls, sent, answer>>
          /\ UNCHANGED <<connectedVia, ethProvider, hostVars, listeners>>]_vars

C13_Witness ==
  /\ variant \in {"app", "p0"} /\ pc = "send" /\ loading
  /\ account # from /\ currentChainId # TargetId(variant, chainKey)
  /\ Len(sent) = 1

\* The provider a component talks to when no connect has chosen one yet:
\* getActiveProvider() of App.jsx, the ethProvider state of part_000 and
\* part_001.
SelectedProvider ==
  IF variant \in AppVariants
  THEN getActiveProvider(connectedVia, fcProvider, browserProvider)
  ELSE ethProvider

\* C15 as stated: the startup effect of App.jsx, part_000 and part_001
\* selects the host's provider exactly when the app runs inside the host
\* and the host's capability list contains the Ethereum-provider
\* capability; otherwise the browser's provider when there is one;
\* otherwise none.
C15_StartupProvider ==
  [][(pc = "boot" /\ pc' = "idle" /\ variant \in {"app", "app2", "p0", "p1"})
       => SelectedProvider' =
            (IF inHost /\ WALLET_CAP \in hostCaps THEN "fc"
             ELSE IF hasEthereum THEN "browser"
             ELSE NULL)]_vars

\* The messages requestAccounts and sendStrike of App.jsx report a failure
\* with, and the messages they end a success with.
App_FailureMessages ==
  {"No wallet provider found.", "No account returned.",
   "Connection cancelled.", "Connect a wallet first.",
   "No wallet provider available.", "Transaction cancelled or failed."}

App_SuccessMessages == {"Connected.", "Strike sent!"}

\* C18: requestAccounts and sendStrike of App.jsx never let a failure
\* escape.  A call that fails before its first request returns at once with
\* a failure message; a running call always ends through its catch or its
\* last statement, with `loading` released and the status set to one of its
\* final messages, and when the request it waited for was rejected (or
\* eth_requestAccounts answered an empty list) that message is a non-empty
\* failure message.
C18_FailuresReported ==
  [][(variant \in AppVariants) =>
       /\ (pc = "idle" /\ pc' = "idle" /\ status' # status)
            => (status' \in App_FailureMessages /\ ~loading')
       /\ (pc \notin {"idle", "boot"} /\ pc' = "idle")
            => /\ status' \in App_FailureMessages \cup App_SuccessMessages
               /\ ~loading'
               /\ calls' = <<>>
       /\ (/\ pc \in {"c_accounts", "switch", "add", "estimate", "send"}
           /\ pc' = "idle"
           /\ (~answer'.ok \/ (pc = "c_accounts" /\ answer'.value = NULL)))
            => (status' \in App_FailureMessages /\ status' # "")]_vars

C18_Witness ==
  /\ variant \in AppVariants /\ pc = "idle" /\ ~loading
  /\ ~answer.ok /\ status = "Transaction cancelled or failed."
  /\ account # NULL

\* C16 as stated: when eth_requestAccounts of a connect of App.jsx or
\* part_000 answers a non-empty list, its first address becomes the account
\* and the connection source is the provider the connect used; when it
\* answers an empty list, the account and the connection source are what
\* they were before the connect (and App.jsx reports "No account returned.").
C16_ConnectOutcome ==
  [][(/\ variant \in {"app", "app2", "p0"}
      /\ pc = "c_accounts" /\ pc' # "c_accounts"
      /\ answer'.ok)
       => IF answer'.value # NULL
          THEN /\ account' = answer'.value
               /\ connectedVia' = via
          ELSE /\ account' = account
               /\ connectedVia' = before.connectedVia
               /\ ethProvider' = before.ethProvider
               /\ (variant \in AppVariants => status' = "No account returned.")]_vars

\* C17 as stated: when eth_requestAccounts of a connect of App.jsx or
\* part_000 is rejected, the selected provider, the connection source, the
\* account and the observed chain id are what they were before the connect.
C17_RejectedConnectIsFrame ==
  [][(/\ variant \in {"app", "app2", "p0"}
      /\ pc = "c_accounts" /\ pc' # "c_accounts"
      /\ ~answer'.ok)
       => /\ account' = account
          /\ currentChainId' = currentChainId
          /\ connectedVia' = before.connectedVia
          /\ ethProvider' = before.ethProvider
          /\ UNCHANGED <<fcProvider, browserProvider>>]_vars

\* C14 as stated: when accountsChanged arrives with an empty list while no
\* operation is running, the handler of App.jsx and of part_003 sets the
\* account to null and clears the profile state, and nothing else happens
\* (no handler is left running, no message is raised).
C14_EmptyAccountsClearsProfile ==
  [][(/\ variant \in {"app", "p3"}
      /\ pc = "idle"
      /\ account # NULL /\ account' = NULL)
       => /\ ~profile'
          /\ pc' = "idle"
          /\ UNCHANGED <<status, loading>>]_vars

\* C19: once eth_sendTransaction of a strike has succeeded, the follow-up
\* reload of the leaderboard and the profile (awaited by sendTransaction of
\* part_003, run from a timeout by sendStrike of App.jsx) leaves the
\* recorded strike result and the status message alone, whether its fetches
\* succeed or fail; the strike of part_003 still ends as a success.
C19_RefreshKeepsStrike ==
  [][IF variant = "p3"
     THEN (pc = "reload" /\ pc' = "idle")
            => /\ txHash' = txHash /\ txHash' \in Hashes
               /\ status' = status
               /\ status' = "Strike sent on " \o P3_CHAINS[chainKey].name \o "!"
               /\ ~loading'
     ELSE (variant = "app" /\ timer # NULL /\ timer' = NULL)
            => /\ UNCHANGED <<lastTx, status, loading, pc>>
               /\ lastTx' # NoTx]_vars

C19_Witness ==
  /\ variant = "p3" /\ pc = "idle" /\ ~loading
  /\ ~answer.ok /\ answer.message = "Failed to fetch"
  /\ txHash \in Hashes /\ status = "Strike sent on Base!"

\* C12: in App.jsx and part_001, `loading` is false whenever no operation
\* is running, and, every awaited call being settled eventually, every
\* connect or strike that has set `loading` releases it, on whichever path
\* it ends.
C12_LoadingReleased ==
  /\ [](variant \in {"app", "p1"} /\ pc \in {"boot", "idle"} => ~loading)
  /\ ((variant \in {"app", "p1"} /\ loading) ~> ~loading)

C12_Witness ==
  /\ variant = "app" /\ pc = "idle" /\ ~loading
  /\ answer.ok /\ answer.value = NULL /\ status = "No account returned."

\* C20: in switchChain of part_000 and part_001, the confirm loop has
\* issued i + 1 <= 10 eth_chainId polls when it is at attempt i; a poll that
\* answers the target id ends the loop at once (switchChain returns); the
\* 10th poll that does not ends the strike with the chain-switch-timeout
\* failure; and, every awaited call being settled eventually, the
\* negotiation always comes to an end.
C20_BoundedVerification ==
  /\ []((variant \in {"p0", "p1"} /\ pc \in {"poll", "sleep"})
          => /\ i \in 0..(POLL_ATTEMPTS - 1)
             /\ Len(SelectSeq(calls, LAMBDA c : c.method = "eth_chainId"))
                  = i + 1)
  /\ [][(/\ variant \in {"p0", "p1"}
         /\ pc = "poll" /\ pc' # "poll"
         /\ answer'.ok /\ answer'.value = TargetId(variant, chainKey))
          => (pc' = "verify" /\ i' = i /\ sent' = <<>>)]_vars
  /\ [][(/\ variant \in {"p0", "p1"}
         /\ pc = "sleep" /\ pc' # "sleep")
          => IF i < POLL_ATTEMPTS - 1
             THEN pc' = "poll" /\ i' = i + 1
             ELSE /\ pc' = "idle"
                  /\ status' = "Transaction failed: Chain switch did not complete."]_vars
  /\ ((variant \in {"p0", "p1"}
         /\ pc \in {"switch", "add", "switch2", "poll", "sleep"})
        ~> (pc \notin {"switch", "add", "switch2", "poll", "sleep"}))

C20_Witness ==
  /\ variant = "p1" /\ pc = "sleep" /\ i = POLL_ATTEMPTS - 1
  /\ currentChainId # TargetId(variant, chainKey)
  /\ Len(calls) >= POLL_ATTEMPTS

\* A decimal amount: decimal digits with at most one dot.
IsDecimalString(str) ==
  /\ \A j \in 1..Len(str) : str[j] = "." \/ IsDigit(str[j], 10)
  /\ Cardinality({j \in 1..Len(str) : str[j] = "."}) <= 1

\* Position of the dot of a decimal amount (one past the end without a dot),
\* the digits before it and the digits after it.
DotAt(str) ==
  IF \E j \in 1..Len(str) : str[j] = "."
    THEN CHOOSE j \in 1..Len(str) : str[j] = "."
  ELSE Len(str) + 1
WholeDigits(str) == SubSeq(str, 1, DotAt(str) - 1)
FracDigits(str) == SubSeq(str, DotAt(str) + 1, Len(str))

\* The number a string of decimal digits writes down (nothing is zero).
DigitsValue(ds) ==
  IF ds = <<>> THEN <<0>>
  ELSE StripZeros([j \in 1..Len(ds) |-> CharVal(ds[j])])

\* C21: for a decimal amount with at most `decimals` fractional digits,
\* parseUnits returns integer part * 10^decimals + the fractional digits
\* right-padded with zeros to `decimals` digits, which is the number written
\* by the integer digits, the fractional digits and the padding zeros in a
\* row; "0.000001337" gives 1337000000000 and "0.0001337" gives
\* 133700000000000 at 18 decimals.
C21_ExactConversion ==
  /\ (/\ result.state # "none"
      /\ IsDecimalString(inputStr)
      /\ Len(FracDigits(inputStr)) <= inputDecimals)
       => result =
            Returned(DigitsValue(
              WholeDigits(inputStr) \o FracDigits(inputStr)
                \o [j \in 1..(inputDecimals - Len(FracDigits(inputStr)))
                      |-> "0"]))
  /\ (/\ result.state # "none"
      /\ inputStr = <<"0",".","0","0","0","0","0","1","3","3","7">>
      /\ inputDecimals = 18)
       => result = Returned(<<1,3,3,7,0,0,0,0,0,0,0,0,0>>)
  /\ (/\ result.state # "none"
      /\ inputStr = <<"0",".","0","0","0","1","3","3","7">>
      /\ inputDecimals = 18)
       => result = Returned(<<1,3,3,7,0,0,0,0,0,0,0,0,0,0,0>>)

C21_Witness ==
  /\ result.state = "returned"
  /\ inputStr = P1_CHAINS.base.strikeAmountDecimal
  /\ inputDecimals = DECIMALS
  /\ result.value = <<1,3,3,7,0,0,0,0,0,0,0,0,0>>

\* The amount cut to exactly n fractional digits.
CutTo(str, n) ==
  WholeDigits(str) \o <<".">> \o SubSeq(FracDigits(str), 1, n)

\* C22: for a decimal amount with more than `decimals` fractional digits,
\* parseUnits drops the digits beyond `decimals` without rounding: it returns
\* the number written by the integer digits and the first `decimals`
\* fractional digits, the same value it returns for the amount cut to
\* `decimals` fractional digits.
C22_Truncation ==
  (/\ result.state # "none"
   /\ IsDecimalString(inputStr)
   /\ Len(FracDigits(inputStr)) > inputDecimals)
    => /\ result =
            Returned(DigitsValue(
              WholeDigits(inputStr)
                \o SubSeq(FracDigits(inputStr), 1, inputDecimals)))
       /\ result.value =
            parseUnits(CutTo(inputStr, inputDecimals), inputDecimals)

C22_Witness ==
  /\ result.state = "returned"
  /\ inputStr = <<"1", ".", "9">>
  /\ inputDecimals = 0
  /\ result.value = <<1>>

\* C23: parseUnits returns no amount for a string with more than one dot
\* or with a character that is not a decimal digit.
C23_MalformedRejected ==
  (result.state # "none" /\ ~IsDecimalString(inputStr))
    => result.state = "thrown"

\* The provider a connection label names in App.jsx.
ProviderOfLabel(label) ==
  IF label = "farcaster" THEN fcProvider
  ELSE IF label = "browser" THEN browserProvider
  ELSE NULL

\* C24 as stated: in the first component of App.jsx, with the host's and the
\* browser's provider both available, every provider call follows the
\* provider the user connected through: the eth_chainId refresh of a running
\* requestAccounts goes to the provider that call was given, the refresh a
\* chainChanged handler makes goes to the provider the handler is registered
\* on, and every call of a strike goes to the provider of connectedVia.
C24_CallsFollowConnectedProvider ==
  (variant = "app" /\ fcProvider # NULL /\ browserProvider # NULL)
    => /\ pc = "c_chain" => calls[Len(calls)].to = p
       /\ \A pr \in Providers, q \in Providers :
            listeners[pr][q] > 0 => q = pr
       /\ pc \in StrikePcs
            => \A j \in 1..Len(calls) :
                 calls[j].to = ProviderOfLabel(connectedVia)

\* C25 as stated: in the first component of App.jsx and in part_000, once
\* the connect operations have returned, each provider carries at most one
\* accountsChanged / chainChanged handler pair of the app, and no pair is
\* registered on a provider other than the connected one (a registered
\* handler stores the account of every event its provider emits).
C25_SingleHandlerPerEvent ==
  (variant \in {"app", "p0"} /\ pc = "idle")
    => \A pr \in Providers :
         /\ ListenerCount(pr) <= 1
         /\ ListenerCount(pr) > 0 => pr = SelectedProvider

\* C26: sendStrike of the first component of App.jsx fixes the sender when
\* it is invoked: `from` is the account of that moment and stays so while
\* the strike runs, whatever accountsChanged does to `account` meanwhile;
\* the one transaction it requests carries that address as its from, and the
\* refresh it schedules on success reloads the counts of that address.
C26_SenderFixedAtInitiation ==
  /\ [][(variant = "app" /\ pc = "idle" /\ pc' \in StrikePcs)
          => (from' = account /\ account' = account)]_vars
  /\ [][(variant = "app" /\ pc \in StrikePcs /\ pc' \in StrikePcs)
          => from' = from]_vars
  /\ []((variant = "app" /\ pc = "send")
          => (Len(sent) = 1 /\ sent[1].from = from))
  /\ [][(variant = "app" /\ pc = "send" /\ answer'.ok /\ pc' = "idle")
          => timer' = from]_vars
  /\ [][(variant = "app" /\ timer' # timer /\ timer' # NULL)
          => (pc = "send" /\ timer' = from)]_vars

C26_Witness ==
  /\ variant = "app" /\ pc = "send"
  /\ from \in Accounts /\ account # from
  /\ sent[1].from = from

\* The values of the eth_estimateGas requests the running handler has made.
ProbedValues ==
  LET probes == SelectSeq(calls, LAMBDA c : c.method = "eth_estimateGas")
  IN [j \in 1..Len(probes) |-> probes[j].value]

\* C27: pickStrikeValueHex of the second component of App.jsx probes the
\* candidates of strikeCandidatesWei in their order, one at a time; the
\* first probe that resolves ends the probing and its candidate's hex is the
\* value of the transaction; a rejected probe moves on to the next
\* candidate, and when the last one is rejected too the first candidate's
\* hex is the value; a rejected probe never ends the strike.  (Every step of
\* the handler at a probe issues a request; wallet events issue none.)
C27_StrikeAmountSelection ==
  /\ []((variant = "app2" /\ pc = "estimate")
          => /\ i \in 1..Len(CHAINS2_candidatesHex[chainKey])
             /\ ProbedValues = SubSeq(CHAINS2_candidatesHex[chainKey], 1, i))
  /\ [][(variant = "app2" /\ pc = "estimate" /\ calls' # calls /\ answer'.ok)
          => /\ pc' = "send"
             /\ calls' = Append(calls, Call("eth_sendTransaction", p))
             /\ sent' = <<TxParams(from, CHAINS2[chainKey].contractAddress,
                                   CHAINS2_candidatesHex[chainKey][i])>>]_vars
  /\ [][(variant = "app2" /\ pc = "estimate" /\ calls' # calls /\ ~answer'.ok)
          => IF i < Len(CHAINS2_candidatesHex[chainKey])
               THEN pc' = "estimate" /\ i' = i + 1 /\ sent' = <<>>
             ELSE /\ pc' = "send"
                  /\ calls' = Append(calls, Call("eth_sendTransaction", p))
                  /\ sent' = <<TxParams(from,
                                 CHAINS2[chainKey].contractAddress,
                                 CHAINS2_candidatesHex[chainKey][1])>>]_vars

C27_Witness ==
  /\ variant = "app2" /\ pc = "send" /\ chainKey = "base"
  /\ ~answer.ok
  /\ ProbedValues = CHAINS2_candidatesHex.base
  /\ sent[1].value = CHAINS2_candidatesHex.base[1]

\* C28: in both components of App.jsx a non-null account always comes with
\* a connection source "farcaster" or "browser" whose provider handle is
\* held; the account turns from null to an address only when a running
\* requestAccounts receives that address from eth_requestAccounts (and then
\* sets the source to its label), or through an accountsChanged event, which
\* can only arrive once a connect has succeeded and registered the handler.
C28_SessionInvariant ==
  /\ []((variant \in AppVariants /\ account # NULL)
          => /\ connectedVia \in {"farcaster", "browser"}
             /\ ProviderOfLabel(connectedVia) # NULL)
  /\ [][(variant \in AppVariants /\ account = NULL /\ account' # NULL)
          => \/ /\ pc = "c_accounts" /\ pc' = "c_chain"
                /\ answer'.ok /\ answer'.value = account'
                /\ connectedVia' = via /\ ProviderOfLabel(via) = p
             \/ /\ pc' = pc /\ calls' = calls
                /\ ListenerTotal > 0
                /\ connectedVia \in {"farcaster", "browser"}]_vars

C28_Witness ==
  /\ variant = "app" /\ pc = "idle"
  /\ account # NULL
  /\ connectedVia = "browser" /\ browserProvider # NULL
  /\ fcProvider # NULL
  /\ ListenerCount("browser") > 0

NotSupportedStatus == "HyperEVM is not supported by this host wallet."

\* The host the component runs in does not list the HyperEVM chain.
HostWithoutHyperEvm == inHost /\ "eip155:999" \notin hostChains

\* sendTransaction of part_000 or part_001 is invoked (up to its first await).
SendTransactionStep == P0_sendTransaction \/ P1_sendTransaction

\* C29 as stated: in part_000 and part_001, inside a host that does not
\* list the HyperEVM chain, a HyperEVM strike ends at once with the
\* not-supported status, in every state the button can be pressed in.
C29_HostGateAsStated ==
  (variant \in {"p0", "p1"} /\ pc = "idle" /\ HostWithoutHyperEvm)
    => ENABLED (/\ SendTransactionStep
                /\ status' = NotSupportedStatus
                /\ UNCHANGED <<pc, loading, calls, sent>>)

\* C29, amended: with an account and a provider connected, a HyperEVM strike
\* inside a host that does not list the HyperEVM chain ends at once with the
\* not-supported status, without a provider request and without touching
\* `loading` (without account or provider the connect checks answer first);
\* no HyperEVM strike ever starts in such a host; the not-supported status
\* is only ever set by that gate; a Base strike is never stopped by it, and
\* in part_000 neither is a HyperEVM strike outside the host.
C29_HyperEvmHostGate ==
  /\ []((/\ variant \in {"p0", "p1"} /\ pc = "idle" /\ HostWithoutHyperEvm
         /\ account # NULL /\ ethProvider # NULL)
          => ENABLED (/\ SendTransactionStep
                      /\ status' = NotSupportedStatus
                      /\ UNCHANGED <<pc, loading, calls, sent>>))
  /\ [][(/\ variant \in {"p0", "p1"} /\ pc = "idle" /\ pc' # "idle"
         /\ chainKey' = "hyperevm")
          => ~HostWithoutHyperEvm]_vars
  /\ [][(/\ variant \in {"p0", "p1"}
         /\ status' = NotSupportedStatus /\ status # NotSupportedStatus)
          => /\ pc = "idle" /\ pc' = "idle"
             /\ loading' = loading /\ calls' = <<>> /\ sent' = <<>>
             /\ account # NULL /\ ethProvider # NULL
             /\ IF variant = "p0"
                  THEN isMiniApp /\ ~supportsHyperEvmInHost
                ELSE ~supportsHyperEvm]_vars
  /\ []((/\ variant \in {"p0", "p1"} /\ pc = "idle"
         /\ account # NULL /\ ethProvider # NULL)
          => ENABLED (/\ SendTransactionStep
                      /\ pc' = "switch" /\ chainKey' = "base" /\ loading'))
  /\ []((/\ variant = "p0" /\ pc = "idle" /\ ~inHost
         /\ account # NULL /\ ethProvider # NULL)
          => ENABLED (/\ SendTransactionStep
                      /\ pc' = "switch" /\ chainKey' = "hyperevm" /\ loading'))

C29_Witness ==
  /\ variant = "p1" /\ pc = "idle" /\ HostWithoutHyperEvm
  /\ account # NULL /\ ethProvider # NULL
  /\ status = NotSupportedStatus /\ ~loading /\ calls = <<>>

\* C30: in both components of App.jsx lastTx changes only in the step in
\* which the eth_sendTransaction request of a running sendStrike resolves,
\* and becomes the pair of the chain key that sendStrike was called with
\* (which the strike keeps from its start on) and the hash the request
\* returned; wallet events and strikes that fail leave it as it was, and a
\* recorded hash always comes with the key of a configured chain, which is
\* what explorerTxUrl builds the link from.
C30_StrikeResultIntegrity ==
  /\ [][(variant \in AppVariants /\ lastTx' # lastTx)
          => /\ pc = "send" /\ pc' = "idle"
             /\ calls[Len(calls)] = Call("eth_sendTransaction", p)
             /\ answer'.ok
             /\ lastTx' = [chainKey |-> chainKey, hash |-> answer'.value]]_vars
  /\ [][(variant \in AppVariants /\ pc = "send" /\ pc' = "idle" /\ answer'.ok)
          => lastTx' = [chainKey |-> chainKey, hash |-> answer'.value]]_vars
  /\ [][(variant \in AppVariants /\ pc = "idle" /\ pc' \in StrikePcs)
          => chainKey' \in ChainKeys]_vars
  /\ [][(variant \in AppVariants /\ pc \in StrikePcs /\ pc' \in StrikePcs)
          => chainKey' = chainKey]_vars
  /\ [][(variant \in AppVariants /\ pc \in StrikePcs /\ pc' = "idle"
         /\ ~answer'.ok)
          => lastTx' = lastTx]_vars
  /\ []((variant \in AppVariants /\ lastTx.hash # NULL)
          => (lastTx.hash \in Hashes /\ lastTx.chainKey \in ChainKeys))

C30_Witness ==
  /\ variant = "app" /\ pc = "idle"
  /\ lastTx = [chainKey |-> "hyperevm", hash |-> "0xh1"]
  /\ ~answer.ok /\ status = "Transaction cancelled or failed."
  /\ currentChainId = CHAINS.base.chainIdHex

=========================================================================
